---------------------------- MODULE Spec2Model ----------------------------
(***************************************************************************)
(* Model of sync_dir_remotely.py: the wire codec (MessageSerde), the       *)
(* stream channel (StreamHandler), the fingerprint cache (DirCrawler,      *)
(* DirMonitor), the diff engine (StateDiffer) and the two roles            *)
(* (RemoteServer, LocalClient).                                            *)
(*                                                                         *)
(* Python values that travel in message bodies are tagged records          *)
(* [t |-> tag, v |-> payload]; byte strings are sequences of character     *)
(* codes (0..255).                                                         *)
(***************************************************************************)
EXTENDS Integers, Sequences, FiniteSets, TLC

(***************************************************************************)
(* Python values                                                           *)
(***************************************************************************)
PyNum(n) == [t |-> "num", v |-> n]
PyStr(s) == [t |-> "str", v |-> s]
PyList(q) == [t |-> "list", v |-> q]
PyTuple(q) == [t |-> "tuple", v |-> q]
PyDict(f) == [t |-> "dict", v |-> f]
PyNone == [t |-> "none", v |-> 0]
EmptyDict == PyDict(<<>>)

\* Lexicographic order on byte strings: the fixed order in which the model
\* iterates the keys of a dict.
RECURSIVE SeqLess(_, _)
SeqLess(a, b) ==
  IF a = <<>> THEN b # <<>>
  ELSE IF b = <<>> THEN FALSE
  ELSE IF a[1] # b[1] THEN a[1] < b[1]
  ELSE SeqLess(Tail(a), Tail(b))

RECURSIVE KeyOrder(_)
KeyOrder(S) ==
  IF S = {} THEN <<>>
  ELSE LET k == CHOOSE x \in S : \A y \in S \ {x} : SeqLess(x, y)
       IN <<k>> \o KeyOrder(S \ {k})

\* dict.items() in iteration order.
ItemsIn(d, ks) == [i \in 1..Len(ks) |-> <<ks[i], d.v[ks[i]]>>]

Items(d) == ItemsIn(d, KeyOrder(DOMAIN d.v))

\* Python slice s[lo:hi] (negative indices count from the end).
PyIndex(s, i) ==
  LET j == IF i < 0 THEN i + Len(s) ELSE i
  IN IF j < 0 THEN 0 ELSE IF j > Len(s) THEN Len(s) ELSE j

PySlice(s, lo, hi) == SubSeq(s, PyIndex(s, lo) + 1, PyIndex(s, hi))

PySliceFrom(s, lo) == SubSeq(s, PyIndex(s, lo) + 1, Len(s))

(***************************************************************************)
(* json.dumps / json.loads                                                 *)
(***************************************************************************)
RECURSIVE Digits(_)
Digits(n) == IF n < 10 THEN <<48 + n>> ELSE Digits(n \div 10) \o <<48 + (n % 10)>>

\* A string literal: the model's alphabet needs no escape.
json_string(s) == <<34>> \o s \o <<34>>

RECURSIVE json_dumps(_), json_join_list(_), json_join_items(_)
json_dumps(x) ==
  CASE x.t = "num" -> Digits(x.v)
    [] x.t = "str" -> json_string(x.v)
    [] x.t \in {"list", "tuple"} -> <<91>> \o json_join_list(x.v) \o <<93>>
    [] x.t = "dict" -> <<123>> \o json_join_items(Items(x)) \o <<125>>
    [] OTHER -> <<110, 117, 108, 108>>

json_join_list(q) ==
  IF q = <<>> THEN <<>>
  ELSE json_dumps(q[1]) \o (IF Len(q) = 1 THEN <<>> ELSE <<44, 32>> \o json_join_list(Tail(q)))

json_join_items(q) ==
  IF q = <<>> THEN <<>>
  ELSE json_string(q[1][1]) \o <<58, 32>> \o json_dumps(q[1][2])
       \o (IF Len(q) = 1 THEN <<>> ELSE <<44, 32>> \o json_join_items(Tail(q)))

ParseFail(i) == [ok |-> FALSE, val |-> PyNone, pos |-> i]
ParseOk(x, i) == [ok |-> TRUE, val |-> x, pos |-> i]

IsDigit(c) == c >= 48 /\ c <= 57

RECURSIVE SkipWs(_, _)
SkipWs(s, i) == IF i <= Len(s) /\ s[i] = 32 THEN SkipWs(s, i + 1) ELSE i

RECURSIVE ParseNumber(_, _, _)
ParseNumber(s, i, acc) ==
  IF i <= Len(s) /\ IsDigit(s[i])
  THEN ParseNumber(s, i + 1, acc * 10 + (s[i] - 48))
  ELSE ParseOk(PyNum(acc), i)

\* s[i] is the opening quote; the literal ends at the next quote.
StringEnd(s, j) ==
  IF \E k \in j..Len(s) : s[k] = 34
  THEN CHOOSE k \in j..Len(s) : s[k] = 34 /\ \A l \in j..(k - 1) : s[l] # 34
  ELSE 0

StringTo(s, i, j) ==
  IF j = 0 THEN ParseFail(i) ELSE ParseOk(PyStr(SubSeq(s, i + 1, j - 1)), j + 1)

ParseString(s, i) == StringTo(s, i, StringEnd(s, i + 1))

At(s, i, c) == i <= Len(s) /\ s[i] = c

RECURSIVE ParseValue(_, _), ParseList(_, _, _), ParseDict(_, _, _)
\* The value that starts at s[i] (white space skipped).
ValueAt(s, i) ==
  IF i > Len(s) THEN ParseFail(i)
  ELSE IF s[i] = 34 THEN ParseString(s, i)
  ELSE IF IsDigit(s[i]) THEN ParseNumber(s, i, 0)
  ELSE IF s[i] = 91 THEN ParseList(s, i + 1, <<>>)
  ELSE IF s[i] = 123 THEN ParseDict(s, i + 1, <<>>)
  ELSE ParseFail(i)

ParseValue(s, i) == ValueAt(s, SkipWs(s, i))

\* After an element of a list: "," or "]".
ListSep(s, j, acc) ==
  IF At(s, j, 44) THEN ParseList(s, j + 1, acc)
  ELSE IF At(s, j, 93) THEN ParseOk(PyList(acc), j + 1)
  ELSE ParseFail(j)

ListElem(s, e, acc) ==
  IF e.ok THEN ListSep(s, SkipWs(s, e.pos), Append(acc, e.val)) ELSE ParseFail(e.pos)

ListAt(s, i, acc) ==
  IF acc = <<>> /\ At(s, i, 93) THEN ParseOk(PyList(<<>>), i + 1)
  ELSE ListElem(s, ValueAt(s, i), acc)

\* After "[" or ",".
ParseList(s, i, acc) == ListAt(s, SkipWs(s, i), acc)

\* After a member of a dict: "," or "}".  A repeated key keeps its last
\* value.
DictSep(s, j, acc) ==
  IF At(s, j, 44) THEN ParseDict(s, j + 1, acc)
  ELSE IF At(s, j, 125) THEN ParseOk(PyDict(acc), j + 1)
  ELSE ParseFail(j)

DictValue(s, key, e, acc) ==
  IF e.ok THEN DictSep(s, SkipWs(s, e.pos), (key :> e.val) @@ acc) ELSE ParseFail(e.pos)

DictColon(s, key, c, acc) ==
  IF At(s, c, 58) THEN DictValue(s, key, ParseValue(s, c + 1), acc) ELSE ParseFail(c)

DictKey(s, k, acc) ==
  IF k.ok THEN DictColon(s, k.val.v, SkipWs(s, k.pos), acc) ELSE ParseFail(k.pos)

DictAt(s, i, acc) ==
  IF acc = <<>> /\ At(s, i, 125) THEN ParseOk(EmptyDict, i + 1)
  ELSE IF At(s, i, 34) THEN DictKey(s, ParseString(s, i), acc)
  ELSE ParseFail(i)

\* After "{" or ",".
ParseDict(s, i, acc) == DictAt(s, SkipWs(s, i), acc)

\* json.loads: one value, then nothing but white space.
LoadsEnd(s, r) == IF r.ok /\ SkipWs(s, r.pos) > Len(s) THEN r ELSE ParseFail(r.pos)

json_loads(s) == LoadsEnd(s, ParseValue(s, 1))

(***************************************************************************)
(* Checksums and the frame header                                          *)
(***************************************************************************)
\* hashlib.md5(...).hexdigest(): the digest is abstracted to a Horner
\* polynomial over the bytes modulo a prime (two inputs that differ in one
\* byte never collide), rendered as 32 lowercase hexadecimal characters.
Square(h, odd) == IF odd THEN (((h * h) % 46337) * 257) % 46337 ELSE (h * h) % 46337

RECURSIVE PowMod(_)
PowMod(k) == IF k = 0 THEN 1 ELSE Square(PowMod(k \div 2), k % 2 = 1)

RECURSIVE Horner(_)
HornerSplit(s, mid) ==
  (Horner(SubSeq(s, 1, mid)) * PowMod(Len(s) - mid) + Horner(SubSeq(s, mid + 1, Len(s)))) % 46337

Horner(s) ==
  IF Len(s) = 0 THEN 0
  ELSE IF Len(s) = 1 THEN (s[1] + 1) % 46337
  ELSE HornerSplit(s, Len(s) \div 2)

HexChar(d) == IF d < 10 THEN 48 + d ELSE 87 + d

HexDigest(n) ==
  [i \in 1..32 |->
     IF i <= 28 THEN 48
     ELSE HexChar((n \div (IF i = 29 THEN 4096 ELSE IF i = 30 THEN 256
                           ELSE IF i = 31 THEN 16 ELSE 1)) % 16)]

\* md5(*args): every argument is fed to the same accumulator, so the digest
\* is that of the concatenation.
RECURSIVE Concat(_)
Concat(args) == IF args = <<>> THEN <<>> ELSE args[1] \o Concat(Tail(args))

md5(args) == HexDigest(Horner(Concat(args)))

\* struct.pack('>i', n): four bytes, big-endian, two's complement.
PackBytes(m, sign) ==
  <<(m \div 16777216) + sign, (m \div 65536) % 256, (m \div 256) % 256, m % 256>>

PackInt(n) == IF n < 0 THEN PackBytes((n + 2147483647) + 1, 128) ELSE PackBytes(n, 0)

\* struct.unpack('>i', b).
UnpackBytes(b) == ((b[1] % 128) * 16777216) + (b[2] * 65536) + (b[3] * 256) + b[4]

UnpackInt(b) == IF b[1] >= 128 THEN (UnpackBytes(b) - 2147483647) - 1 ELSE UnpackBytes(b)

\* '32s': exactly 32 bytes, cut or padded with NUL.
Pack32s(s) == [i \in 1..32 |-> IF i <= Len(s) THEN s[i] ELSE 0]

header_bytes == 4 + 32 + 4

(***************************************************************************)
(* Message, MessageSerde                                                   *)
(***************************************************************************)
PING_REQUEST == 0
PING_RESPONSE == 1
DIFF_REQUEST == 2
DIFF_RESPONSE == 3
UPLOAD_REQUEST == 4
UPLOAD_RESPONSE == 5

K_ts == <<116, 115>>
K_files == <<102, 105, 108, 101, 115>>
K_diff == <<100, 105, 102, 102>>
K_uploaded_files == <<117, 112, 108, 111, 97, 100, 101, 100, 95, 102, 105, 108, 101, 115>>

\* Message(message_type) at time `now`.
Message(message_type, now) ==
  [type |-> message_type, body |-> PyDict(K_ts :> PyNum(now))]

\* message.body[key] = value
WithBody(message, key, value) ==
  [message EXCEPT !.body = PyDict((key :> value) @@ message.body.v)]

\* os.getenv('USER') and the token given on the command line.
USER == <<117>>
TOKEN == <<116, 111, 107, 101, 110, 49, 50, 51>>

_md5(data, token) == md5(<<USER, data, token>>)

\* header + json_body
Frame(message_type, json_body, token) ==
  PackInt(message_type) \o Pack32s(_md5(json_body, token)) \o PackInt(Len(json_body)) \o json_body

serialise(message, token) == Frame(message.type, json_dumps(message.body), token)

\* dict.update(other): a dict, or a list of [key, value] pairs.
IsPairs(x) ==
  /\ x.t = "list"
  /\ \A i \in 1..Len(x.v) :
       x.v[i].t \in {"list", "tuple"} /\ Len(x.v[i].v) = 2 /\ x.v[i].v[1].t = "str"

RECURSIVE PairsToDict(_)
PairsToDict(q) ==
  IF q = <<>> THEN <<>> ELSE (q[Len(q)].v[1].v :> q[Len(q)].v[2]) @@ PairsToDict(SubSeq(q, 1, Len(q) - 1))

Updatable(x) == x.t = "dict" \/ IsPairs(x)

Update(body, x) == PyDict((IF x.t = "dict" THEN x.v ELSE PairsToDict(x.v)) @@ body.v)

\* deserialise(input) at time `now`: (None, input), (message, unused) or an
\* exception.
SerdeNone(input) == [status |-> "none", message |-> PyNone, unused |-> input, exc |-> ""]
SerdeRaise(input, e) == [status |-> "raise", message |-> PyNone, unused |-> input, exc |-> e]

\* A faulty variant of SerdeOk: the body that was read is never merged into
\* the new message, which keeps the timestamp of its own construction.
SerdeOkFresh(input, msg_type, total_bytes, loaded, now) ==
  [status |-> "ok",
   message |-> [type |-> msg_type, body |-> Message(msg_type, now).body],
   unused |-> PySliceFrom(input, total_bytes),
   exc |-> ""]

SerdeOk(input, msg_type, total_bytes, loaded, now) ==
  [status |-> "ok",
   message |-> [type |-> msg_type, body |-> Update(Message(msg_type, now).body, loaded)],
   unused |-> PySliceFrom(input, total_bytes),
   exc |-> ""]

\* message.body.update(json.loads(json_body))
Loaded(input, msg_type, total_bytes, parsed, now) ==
  IF ~parsed.ok THEN SerdeRaise(input, "ValueError")
  ELSE IF ~Updatable(parsed.val) THEN SerdeRaise(input, "TypeError")
  ELSE SerdeOk(input, msg_type, total_bytes, parsed.val, now)

\* A faulty variant of Checked: the checksum in the header is not compared.
CheckedBlindly(input, msg_type, body_md5, total_bytes, json_body, token, now) ==
  Loaded(input, msg_type, total_bytes, json_loads(json_body), now)

\* The checksum of the body against the one in the header.
Checked(input, msg_type, body_md5, total_bytes, json_body, token, now) ==
  IF body_md5 # _md5(json_body, token) THEN SerdeRaise(input, "HumaReadbleException")
  ELSE Loaded(input, msg_type, total_bytes, json_loads(json_body), now)

\* A faulty variant of Framed: the body is read without waiting for all of
\* its bytes.
FramedEarly(input, msg_type, body_md5, total_bytes, token, now) ==
  IF _md5(PySlice(input, header_bytes, total_bytes), token) # body_md5
  THEN SerdeRaise(input, "HumaReadbleException")
  ELSE Loaded(input, msg_type, total_bytes,
              json_loads(PySlice(input, header_bytes, total_bytes)), now)

Framed(input, msg_type, body_md5, total_bytes, token, now) ==
  IF Len(input) < total_bytes THEN SerdeNone(input)
  ELSE Checked(input, msg_type, body_md5, total_bytes,
               PySlice(input, header_bytes, total_bytes), token, now)

deserialise(input, token, now) ==
  IF Len(input) < header_bytes THEN SerdeNone(input)
  ELSE Framed(input, UnpackInt(SubSeq(input, 1, 4)), SubSeq(input, 5, 36),
              header_bytes + UnpackInt(SubSeq(input, 37, 40)), token, now)

(***************************************************************************)
(* base64                                                                  *)
(***************************************************************************)
B64Char(n) ==
  IF n < 26 THEN 65 + n ELSE IF n < 52 THEN 71 + n ELSE IF n < 62 THEN n - 4
  ELSE IF n = 62 THEN 43 ELSE 47

IsB64(c) ==
  (c >= 65 /\ c <= 90) \/ (c >= 97 /\ c <= 122) \/ (c >= 48 /\ c <= 57) \/ c \in {43, 47, 61}

B64Val(c) ==
  IF c >= 65 /\ c <= 90 THEN c - 65 ELSE IF c >= 97 /\ c <= 122 THEN c - 71
  ELSE IF c >= 48 /\ c <= 57 THEN c + 4 ELSE IF c = 43 THEN 62 ELSE IF c = 47 THEN 63 ELSE 0

\* base64.b64encode: three bytes become four characters, "=" pads the last
\* group.
RECURSIVE b64encode(_)
b64encode(s) ==
  IF s = <<>> THEN <<>>
  ELSE LET n == IF Len(s) < 3 THEN Len(s) ELSE 3
           b1 == s[1]
           b2 == IF n >= 2 THEN s[2] ELSE 0
           b3 == IF n >= 3 THEN s[3] ELSE 0
           c1 == B64Char(b1 \div 4)
           c2 == B64Char((b1 % 4) * 16 + (b2 \div 16))
           c3 == IF n >= 2 THEN B64Char((b2 % 16) * 4 + (b3 \div 64)) ELSE 61
           c4 == IF n >= 3 THEN B64Char(b3 % 64) ELSE 61
       IN <<c1, c2, c3, c4>> \o b64encode(SubSeq(s, n + 1, Len(s)))

\* base64.b64decode: characters outside the alphabet are skipped; groups of
\* four become up to three bytes; anything else is "Incorrect padding".
RECURSIVE B64Groups(_)
B64Groups(q) ==
  IF q = <<>> THEN <<>>
  ELSE LET v1 == B64Val(q[1])
           v2 == B64Val(q[2])
           v3 == B64Val(q[3])
           v4 == B64Val(q[4])
           b1 == v1 * 4 + (v2 \div 16)
           b2 == (v2 % 16) * 16 + (v3 \div 4)
           b3 == (v3 % 4) * 64 + v4
       IN (IF q[3] = 61 THEN <<b1>> ELSE IF q[4] = 61 THEN <<b1, b2>> ELSE <<b1, b2, b3>>)
          \o (IF q[3] = 61 \/ q[4] = 61 THEN <<>> ELSE B64Groups(SubSeq(q, 5, Len(q))))

b64decode(s) ==
  LET q == SelectSeq(s, IsB64)
  IN IF Len(q) % 4 # 0 \/ (\E i \in 1..Len(q) : q[i] = 61 /\ i % 4 \in {1, 2})
     THEN [ok |-> FALSE, val |-> <<>>]
     ELSE [ok |-> TRUE, val |-> B64Groups(q)]

(***************************************************************************)
(* StreamHandler                                                           *)
(***************************************************************************)
BUFFER_SIZE_BYTES == 1048576

\* socket.recv(BUFFER_SIZE_BYTES) on a stream holding `avail`: the sizes it
\* may return.
RecvSizes(avail) ==
  1..(IF Len(avail) < BUFFER_SIZE_BYTES THEN Len(avail) ELSE BUFFER_SIZE_BYTES)

\* One pass of the loop of recvMessage with datal > 0: append the data,
\* deserialise, keep what is unused.  An exception leaves the appended
\* data in the buffer.
Received(r) == [buffer |-> r.unused, result |-> r]

recvMessage(buffer, data, token, now) == Received(deserialise(buffer \o data, token, now))

\* sendMessage: the whole frame goes to the socket (sendall).
sendMessage(stream, message, token) == stream \o serialise(message, token)

(***************************************************************************)
(* DirCrawler                                                              *)
(***************************************************************************)
\* A directory tree: relative path -> [mtime, content] for every file in it.
NoFiles == <<>>

\* DirMonitor builds every DirCrawler without an exclude_list.
_is_excluded(path) == FALSE

\* os.path.isabs
isabs(path) == path # <<>> /\ path[1] = 47

\* DirCrawler.md5_hash: hashlib.md5 over the whole content of a file.
md5_hash(content) == md5(<<content>>)

\* crawl(): the relative paths of all files.
crawl(dir) == {path \in DOMAIN dir : ~_is_excluded(path)}

\* A faulty variant of Reusable: > where the code has >=.
ReusableNewer(previous_results, rel_path, mtime) ==
  /\ previous_results.t = "dict"
  /\ rel_path \in DOMAIN previous_results.v
  /\ previous_results.v[rel_path].v[1].v > mtime

\* rel_path in previous_results and previous_results[rel_path][0] >= mtime
\* (previous_results is the dict of the last pass, or the empty list the
\* monitor starts with).
Reusable(previous_results, rel_path, mtime) ==
  /\ previous_results.t = "dict"
  /\ rel_path \in DOMAIN previous_results.v
  /\ previous_results.v[rel_path].v[1].v >= mtime

\* data[rel_path]
Hashed(dir, previous_results, rel_path) ==
  IF Reusable(previous_results, rel_path, dir[rel_path].mtime)
  THEN previous_results.v[rel_path]
  ELSE PyTuple(<<PyNum(dir[rel_path].mtime), PyStr(md5_hash(dir[rel_path].content))>>)

\* crawl_and_hash(previous_results): the new dict, with the paths whose md5
\* was computed and those whose md5 was reused (the code counts them).
crawl_and_hash(dir, previous_results) ==
  [data |-> PyDict([rel_path \in crawl(dir) |-> Hashed(dir, previous_results, rel_path)]),
   computed_md5s |-> {rel_path \in crawl(dir) :
                        ~Reusable(previous_results, rel_path, dir[rel_path].mtime)},
   reused_md5s |-> {rel_path \in crawl(dir) :
                      Reusable(previous_results, rel_path, dir[rel_path].mtime)}]

(***************************************************************************)
(* StateDiffer                                                             *)
(***************************************************************************)
\* A faulty variant of NeedsUpload: the whole record is compared, the
\* modification time with the hash.
NeedsUploadRecord(src_dir, dst_dir, path) ==
  \/ path \notin DOMAIN dst_dir.v
  \/ src_dir.v[path] # dst_dir.v[path]

\* path not in dst_dir or md5_hash != dst_dir[path][1]
NeedsUpload(src_dir, dst_dir, path) ==
  \/ path \notin DOMAIN dst_dir.v
  \/ src_dir.v[path].v[2] # dst_dir.v[path].v[2]

\* The inner loop: the paths of src_dir to upload, in iteration order.
diff_dir(src_dir, dst_dir) ==
  PyList(SelectSeq([i \in 1..Len(KeyOrder(DOMAIN src_dir.v)) |-> PyStr(KeyOrder(DOMAIN src_dir.v)[i])],
                   LAMBDA p : NeedsUpload(src_dir, dst_dir, p.v)))

IsSeq(x) == x.t \in {"list", "tuple"}

\* What makes diff raise before it returns: the assertion on the lengths, a
\* snapshot that is no dict, a record that does not unpack into two values,
\* the assertion on absolute paths.
diff_raises(src, dst) ==
  IF ~IsSeq(src) THEN "TypeError"
  ELSE IF Len(src.v) # Len(dst.v) THEN "AssertionError"
  ELSE IF \E i \in 1..Len(src.v) : src.v[i].t # "dict" THEN "AttributeError"
  ELSE IF \E i \in 1..Len(src.v) : \E path \in DOMAIN src.v[i].v :
            ~(IsSeq(src.v[i].v[path]) /\ Len(src.v[i].v[path].v) = 2)
       THEN "ValueError"
  ELSE IF \E i \in 1..Len(src.v) : \E path \in DOMAIN src.v[i].v : isabs(path)
       THEN "AssertionError"
  ELSE ""

diff(src, dst) ==
  IF diff_raises(src, dst) # ""
  THEN [exc |-> diff_raises(src, dst), results |-> PyNone]
  ELSE [exc |-> "", results |-> PyList([i \in 1..Len(src.v) |-> diff_dir(src.v[i], dst.v[i])])]


(***************************************************************************)
(* Bounded inputs                                                          *)
(***************************************************************************)
MaxTime == 2

Path_a == <<97>>
Path_bc == <<98, 47, 99>>
Paths == {Path_a, Path_bc}

Content_hi == <<104, 105>>
Content_ho == <<104, 111>>
Contents == {Content_hi, Content_ho}

\* The records crawl_and_hash builds: (mtime, md5).
FileRecords == {PyTuple(<<PyNum(t), PyStr(md5_hash(c))>>) : t \in 1..MaxTime, c \in Contents}

\* All dicts from a subset of `keys` to `vals`.
Dicts(keys, vals) == {PyDict(f) : f \in UNION {[K -> vals] : K \in SUBSET keys}}

(***************************************************************************)
(* State.  Four specifications share the module; each moves its own        *)
(* variables and leaves the others at rest.                                *)
(***************************************************************************)
\* The codec and the stream channel on their own.
VARIABLES sd_message, sd_phase, sd_wire, sd_buffer, sd_last

\* StateDiffer.diff on its own.
VARIABLES df_src, df_dst, df_results

\* DirCrawler.crawl_and_hash on its own.
VARIABLES cr_dir, cr_clock, cr_files, cr_seen, cr_pass

\* The client, the server and their connections.
VARIABLES clock, conns,
          cl_dir, cl_files, cl_pc, cl_conn, cl_buffer,
          sv_dir, sv_files, sv_pc, sv_conn, sv_buffer, sv_blocked, sv_exc,
          pr_pc, pr_conn, cl_sent, cl_cycle

\* A DirMonitor over several roots with its thread, and a reader of
\* self.files.
VARIABLES mn_dirs, mn_heap, mn_files, mn_pc, mn_job, rd_ref, rd_seen

\* One process, its sockets and its StreamHandler, with the close() calls
\* each socket has had.
VARIABLES ch_role, ch_pc, ch_sockets, ch_path, st_socket, st_exits, lc_socket

\* A StreamHandler that receives the frames a peer sends one after the
\* other.
VARIABLES rx_sent, rx_wire, rx_buffer, rx_pc, rx_got

sd_vars == <<sd_message, sd_phase, sd_wire, sd_buffer, sd_last>>

df_vars == <<df_src, df_dst, df_results>>

cr_vars == <<cr_dir, cr_clock, cr_files, cr_seen, cr_pass>>

sy_vars == <<clock, conns, cl_dir, cl_files, cl_pc, cl_conn, cl_buffer,
             sv_dir, sv_files, sv_pc, sv_conn, sv_buffer, sv_blocked, sv_exc,
             pr_pc, pr_conn, cl_sent, cl_cycle>>

mn_vars == <<mn_dirs, mn_heap, mn_files, mn_pc, mn_job, rd_ref, rd_seen>>

ch_vars == <<ch_role, ch_pc, ch_sockets, ch_path, st_socket, st_exits, lc_socket>>

rx_vars == <<rx_sent, rx_wire, rx_buffer, rx_pc, rx_got>>

vars == <<sd_vars, df_vars, cr_vars, sy_vars, mn_vars, ch_vars, rx_vars>>

NoCall == [input |-> <<>>, first |-> FALSE, result |-> [status |-> "nocall", message |-> PyNone, unused |-> <<>>, exc |-> ""]]

NotCalled == [exc |-> "nocall", results |-> PyNone]

NoPass == [previous |-> PyNone, seen |-> PyNone, computed_md5s |-> {}, reused_md5s |-> {}]

SerdeRest ==
  /\ sd_message = PyNone
  /\ sd_phase = "rest"
  /\ sd_wire = <<>>
  /\ sd_buffer = <<>>
  /\ sd_last = NoCall

DiffRest ==
  /\ df_src = PyNone
  /\ df_dst = PyNone
  /\ df_results = NotCalled

CrawlRest ==
  /\ cr_dir = NoFiles
  /\ cr_clock = 0
  /\ cr_files = PyNone
  /\ cr_seen = PyNone
  /\ cr_pass = NoPass

MonRest ==
  /\ mn_dirs = <<>>
  /\ mn_heap = <<>>
  /\ mn_files = 0
  /\ mn_pc = "rest"
  /\ mn_job = <<>>
  /\ rd_ref = 0
  /\ rd_seen = <<>>

ChanRest ==
  /\ ch_role = "rest"
  /\ ch_pc = "rest"
  /\ ch_sockets = <<>>
  /\ ch_path = ""
  /\ st_socket = 0
  /\ st_exits = 0
  /\ lc_socket = 0

RecvRest ==
  /\ rx_sent = <<>>
  /\ rx_wire = <<>>
  /\ rx_buffer = <<>>
  /\ rx_pc = "rest"
  /\ rx_got = <<>>

SysRest ==
  /\ clock = 0
  /\ conns = <<>>
  /\ cl_dir = NoFiles
  /\ cl_files = PyNone
  /\ cl_pc = "rest"
  /\ cl_conn = 0
  /\ cl_buffer = <<>>
  /\ cl_sent = NoFiles
  /\ cl_cycle = "none"
  /\ sv_dir = NoFiles
  /\ sv_files = PyNone
  /\ sv_pc = "rest"
  /\ sv_conn = 0
  /\ sv_buffer = <<>>
  /\ sv_blocked = {}
  /\ sv_exc = ""
  /\ pr_pc = "rest"
  /\ pr_conn = 0

(***************************************************************************)
(* The codec and the stream channel on their own: one message is           *)
(* serialised, its bytes arrive in chunks of any size, and the frame with  *)
(* one body byte changed is deserialised.                                  *)
(***************************************************************************)
\* Bodies the two roles build (with the tuples of crawl_and_hash), and the
\* same bodies as they look after one trip through JSON.
SerdeSnapshots == Dicts({Path_a}, FileRecords) \cup {PyDict(Path_a :> x @@ Path_bc :> x) : x \in FileRecords}

SerdeDiffs == {PyList(<<>>), PyList(<<PyStr(Path_a)>>), PyList(<<PyStr(Path_bc), PyStr(Path_a)>>)}

SerdeUploads == Dicts({Path_bc}, {PyStr(b64encode(c)) : c \in Contents \cup {<<>>}})

AsLists(d) == PyDict([k \in DOMAIN d.v |-> PyList(d.v[k].v)])

SerdeMessages ==
  {Message(ty, ts) : ty \in {PING_REQUEST, PING_RESPONSE, UPLOAD_RESPONSE}, ts \in 0..MaxTime}
  \cup {WithBody(Message(DIFF_REQUEST, MaxTime), K_files, PyList(<<x>>)) : x \in SerdeSnapshots}
  \cup {WithBody(Message(DIFF_REQUEST, MaxTime), K_files, PyList(<<AsLists(x), AsLists(x)>>)) :
          x \in Dicts({Path_a}, FileRecords)}
  \cup {WithBody(Message(DIFF_RESPONSE, MaxTime), K_diff, PyList(<<x>>)) : x \in SerdeDiffs}
  \cup {WithBody(Message(UPLOAD_REQUEST, MaxTime), K_uploaded_files, PyList(<<x>>)) : x \in SerdeUploads}

\* The bytes a changed body byte is replaced with.
MutBytes == {48, 65, 125}

SerdeInit ==
  /\ sd_message \in SerdeMessages
  /\ sd_phase = "new"
  /\ sd_wire = <<>>
  /\ sd_buffer = <<>>
  /\ sd_last = NoCall
  /\ DiffRest /\ CrawlRest /\ SysRest /\ MonRest /\ ChanRest /\ RecvRest

\* StreamHandler.sendMessage(message) by the sending peer.
SerdeSend ==
  /\ sd_phase = "new"
  /\ sd_wire' = sendMessage(sd_wire, sd_message, TOKEN)
  /\ sd_phase' = "receiving"
  /\ UNCHANGED <<sd_message, sd_buffer, sd_last>>
  /\ UNCHANGED <<df_vars, cr_vars, sy_vars, mn_vars, ch_vars, rx_vars>>

\* One pass of the loop of StreamHandler.recvMessage: recv returns the
\* first k bytes in flight.
SerdeRecv ==
  /\ sd_phase = "receiving"
  /\ \E k \in RecvSizes(sd_wire) :
       /\ sd_last' = [input |-> sd_buffer \o SubSeq(sd_wire, 1, k),
                      first |-> sd_buffer = <<>>,
                      result |-> recvMessage(sd_buffer, SubSeq(sd_wire, 1, k), TOKEN, MaxTime + 1).result]
       /\ sd_buffer' = sd_last'.result.unused
       /\ sd_wire' = SubSeq(sd_wire, k + 1, Len(sd_wire))
       /\ sd_phase' = IF sd_last'.result.status = "none" THEN "receiving" ELSE "returned"
  /\ UNCHANGED sd_message
  /\ UNCHANGED <<df_vars, cr_vars, sy_vars, mn_vars, ch_vars, rx_vars>>

\* deserialise applied to the frame with body byte i replaced by b.
SerdeMutated ==
  /\ sd_phase = "receiving"
  /\ sd_buffer = <<>>
  /\ \E i \in (header_bytes + 1)..Len(sd_wire), b \in MutBytes :
       /\ sd_wire[i] # b
       /\ sd_last' = [input |-> [sd_wire EXCEPT ![i] = b],
                      first |-> TRUE,
                      result |-> deserialise([sd_wire EXCEPT ![i] = b], TOKEN, MaxTime + 1)]
  /\ sd_phase' = "mutated"
  /\ UNCHANGED <<sd_message, sd_wire, sd_buffer>>
  /\ UNCHANGED <<df_vars, cr_vars, sy_vars, mn_vars, ch_vars, rx_vars>>

SerdeNext == SerdeSend \/ SerdeRecv \/ SerdeMutated

SpecSerde == SerdeInit /\ [][SerdeNext]_vars

\* A value as it looks after json.dumps and json.loads: tuples are lists.
RECURSIVE AsJson(_)
AsJson(x) ==
  CASE x.t \in {"list", "tuple"} -> PyList([i \in 1..Len(x.v) |-> AsJson(x.v[i])])
    [] x.t = "dict" -> PyDict([k \in DOMAIN x.v |-> AsJson(x.v[k])])
    [] OTHER -> x

RECURSIVE HasTuple(_)
HasTuple(x) ==
  CASE x.t = "tuple" -> TRUE
    [] x.t = "list" -> \E i \in 1..Len(x.v) : HasTuple(x.v[i])
    [] x.t = "dict" -> \E k \in DOMAIN x.v : HasTuple(x.v[k])
    [] OTHER -> FALSE

SerdeFrame == serialise(sd_message, TOKEN)

\* The last call was deserialise(serialise(m)): the whole frame, in one piece.
WholeCall == sd_phase = "returned" /\ sd_last.first /\ Len(sd_last.input) = Len(SerdeFrame)

\* The last call was made by recvMessage on the bytes received so far.
StreamCall == sd_phase \in {"receiving", "returned"} /\ sd_last.result.status # "nocall"

\* C1 as stated: deserialise(serialise(m)) returns a message equal to m in
\* type and body, and an empty remainder.
C1_RoundTripExact ==
  WholeCall =>
    /\ sd_last.result.status = "ok"
    /\ sd_last.result.message.type = sd_message.type
    /\ sd_last.result.message.body = sd_message.body
    /\ sd_last.result.unused = <<>>

\* C1 amended: deserialise(serialise(m)) returns the type of m, the body of m
\* with every tuple read back as a list of the same elements (so the body
\* of m itself when it holds no tuple), timestamp included, and an empty
\* remainder.
C1_RoundTrip ==
  WholeCall =>
    /\ sd_last.result.status = "ok"
    /\ sd_last.result.message.type = sd_message.type
    /\ sd_last.result.message.body = AsJson(sd_message.body)
    /\ ~HasTuple(sd_message.body) => sd_last.result.message.body = sd_message.body
    /\ sd_last.result.message.body.v[K_ts] = sd_message.body.v[K_ts]
    /\ sd_last.result.unused = <<>>

C1_Witness ==
  /\ WholeCall
  /\ sd_message.type = UPLOAD_REQUEST
  /\ sd_last.result.status = "ok"
  /\ sd_last.result.message = sd_message
  /\ sd_message.body.v[K_uploaded_files].v[1].v # <<>>

\* C2 as stated: every call on an incomplete prefix returns (None, the
\* buffer unchanged) and the call on the complete frame returns exactly m and
\* no leftover byte.
C2_FragmentsExact ==
  StreamCall =>
    /\ sd_last.input = SubSeq(SerdeFrame, 1, Len(sd_last.input))
    /\ Len(sd_last.input) < Len(SerdeFrame) =>
         sd_last.result.status = "none" /\ sd_buffer = sd_last.input
    /\ Len(sd_last.input) = Len(SerdeFrame) =>
         /\ sd_last.result.status = "ok"
         /\ sd_last.result.message = sd_message
         /\ sd_buffer = <<>>

\* C2 amended: however the bytes of serialise(m) are split, every call on an
\* incomplete prefix returns (None, the buffer unchanged) and the call made
\* once the last byte has arrived returns the type of m and the body of m
\* with tuples read back as lists, and leaves no byte in the buffer.
C2_Fragments ==
  StreamCall =>
    /\ sd_last.input = SubSeq(SerdeFrame, 1, Len(sd_last.input))
    /\ sd_wire = SubSeq(SerdeFrame, Len(sd_last.input) + 1, Len(SerdeFrame))
    /\ Len(sd_last.input) < Len(SerdeFrame) =>
         /\ sd_last.result.status = "none"
         /\ sd_last.result.unused = sd_last.input
         /\ sd_buffer = sd_last.input
         /\ sd_phase = "receiving"
    /\ Len(sd_last.input) = Len(SerdeFrame) =>
         /\ sd_last.result.status = "ok"
         /\ sd_last.result.message = [type |-> sd_message.type, body |-> AsJson(sd_message.body)]
         /\ sd_last.result.unused = <<>>
         /\ sd_buffer = <<>>
         /\ sd_phase = "returned"

\* The frame arrived in several pieces and the last call returned the
\* message.
C2_Witness ==
  /\ sd_phase = "returned"
  /\ ~sd_last.first
  /\ sd_last.result.status = "ok"
  /\ sd_message.type = DIFF_RESPONSE
  /\ sd_last.result.message = sd_message
  /\ sd_buffer = <<>>
  /\ sd_wire = <<>>

\* C3: deserialise of a frame with one body byte changed and the header
\* checksum left alone fails with the protocol integrity error; no message
\* is returned.
C3_Checksum ==
  sd_phase = "mutated" =>
    /\ sd_last.result.status = "raise"
    /\ sd_last.result.exc = "HumaReadbleException"
    /\ sd_last.result.message = PyNone

\* A changed body that is still well-formed JSON of the same length: only
\* the checksum tells it apart.
C3_Witness ==
  /\ sd_phase = "mutated"
  /\ sd_last.result.status = "raise"
  /\ Len(sd_last.input) = Len(SerdeFrame)
  /\ sd_last.input # SerdeFrame
  /\ SubSeq(sd_last.input, 1, header_bytes) = SubSeq(SerdeFrame, 1, header_bytes)
  /\ json_loads(PySliceFrom(sd_last.input, header_bytes)).ok

(***************************************************************************)
(* StateDiffer.diff on its own: the source list as it arrives in a         *)
(* DIFF_REQUEST, the destination list as a DirMonitor holds it.            *)
(***************************************************************************)
DiffRecords == {PyTuple(<<PyNum(t), PyStr(md5_hash(c))>>) : t \in {1, MaxTime}, c \in Contents}

\* Lists of no, one and two snapshots.
SnapshotLists ==
  {<<>>} \cup {<<x>> : x \in Dicts(Paths, DiffRecords)}
  \cup {<<x, y>> : x \in Dicts(Paths, DiffRecords), y \in Dicts({Path_a}, DiffRecords)}

DiffInit ==
  /\ df_src \in {AsJson(PyList(q)) : q \in SnapshotLists}
  /\ df_dst \in {PyList(q) : q \in SnapshotLists}
  /\ df_results = NotCalled
  /\ SerdeRest /\ CrawlRest /\ SysRest /\ MonRest /\ ChanRest /\ RecvRest

\* StateDiffer().diff(src, dst)
DiffCall ==
  /\ df_results = NotCalled
  /\ df_results' = diff(df_src, df_dst)
  /\ UNCHANGED <<df_src, df_dst>>
  /\ UNCHANGED <<sd_vars, cr_vars, sy_vars, mn_vars, ch_vars, rx_vars>>

DiffNext == DiffCall

SpecDiff == DiffInit /\ [][DiffNext]_vars

Listed(list, path) == \E j \in 1..Len(list.v) : list.v[j] = PyStr(path)

\* C4: for lists of equal length, a path is in diff(src, dst)[i] exactly
\* when it is a key of src[i] and is absent from dst[i] or has another hash
\* there, whatever the modification times; so an empty dst[i] yields every
\* path of src[i], equal hashes yield the empty list, and a path of dst[i]
\* alone is never listed.
C4_Diff ==
  (df_results # NotCalled /\ Len(df_src.v) = Len(df_dst.v)) =>
    /\ df_results.exc = ""
    /\ Len(df_results.results.v) = Len(df_src.v)
    /\ \A i \in 1..Len(df_src.v) :
         /\ \A path \in Paths :
              Listed(df_results.results.v[i], path) <=>
                /\ path \in DOMAIN df_src.v[i].v
                /\ \/ path \notin DOMAIN df_dst.v[i].v
                   \/ df_src.v[i].v[path].v[2] # df_dst.v[i].v[path].v[2]
         /\ Len(df_results.results.v[i].v) <= Cardinality(DOMAIN df_src.v[i].v)
         /\ df_dst.v[i] = EmptyDict =>
              Len(df_results.results.v[i].v) = Cardinality(DOMAIN df_src.v[i].v)
         /\ AsJson(df_dst.v[i]) = df_src.v[i] => df_results.results.v[i] = PyList(<<>>)

\* Two roots; in the first, one file with the same hash and another mtime
\* (not listed) and one with another hash (listed); in the second, a file
\* of the destination alone.
C4_Witness ==
  /\ df_results # NotCalled
  /\ Len(df_src.v) = 2
  /\ Len(df_dst.v) = 2
  /\ DOMAIN df_src.v[1].v = Paths
  /\ DOMAIN df_dst.v[1].v = Paths
  /\ df_src.v[1].v[Path_a].v[1] # df_dst.v[1].v[Path_a].v[1]
  /\ df_src.v[1].v[Path_a].v[2] = df_dst.v[1].v[Path_a].v[2]
  /\ df_results.results.v[1] = PyList(<<PyStr(Path_bc)>>)
  /\ df_src.v[2] = EmptyDict
  /\ df_dst.v[2] # EmptyDict
  /\ df_results.results.v[2] = PyList(<<>>)

(***************************************************************************)
(* DirCrawler.crawl_and_hash on its own: one directory whose files are     *)
(* written and removed, crawled again and again with the result of the     *)
(* last pass, as DirMonitor._crawl_all does.                               *)
(***************************************************************************)
\* Directories with files stamped up to time t.
Dirs(t) ==
  UNION {[K -> [mtime : 1..t, content : Contents]] : K \in SUBSET Paths}

\* The first argument is any dict of records, or the empty list a
\* DirMonitor starts with; cr_seen is the directory as the pass that
\* produced cr_files saw it (none before the first pass of a monitor).
CrawlInit ==
  /\ cr_clock \in 1..MaxTime
  /\ cr_dir \in Dirs(cr_clock)
  /\ cr_files \in Dicts(Paths, FileRecords) \cup {PyList(<<>>)}
  /\ cr_seen = IF cr_files = PyList(<<>>) THEN PyDict(NoFiles) ELSE PyNone
  /\ cr_pass = NoPass
  /\ SerdeRest /\ DiffRest /\ SysRest /\ MonRest /\ ChanRest /\ RecvRest

PassOf(r, previous, seen) ==
  [previous |-> previous, seen |-> seen,
   computed_md5s |-> r.computed_md5s, reused_md5s |-> r.reused_md5s]

\* One pass: files.append(crawler.crawl_and_hash(previous)); self.files = files
CrawlPass ==
  /\ cr_files' = crawl_and_hash(cr_dir, cr_files).data
  /\ cr_pass' = PassOf(crawl_and_hash(cr_dir, cr_files), cr_files, cr_seen)
  /\ cr_seen' = IF cr_seen = PyNone THEN PyNone ELSE PyDict(cr_dir)
  /\ UNCHANGED <<cr_dir, cr_clock>>
  /\ UNCHANGED <<sd_vars, df_vars, sy_vars, mn_vars, ch_vars, rx_vars>>

\* A file is created or rewritten: its mtime is the time of the change.
CrawlWrite ==
  /\ \E path \in Paths, content \in Contents :
       cr_dir' = (path :> [mtime |-> cr_clock, content |-> content]) @@ cr_dir
  /\ cr_pass' = NoPass
  /\ UNCHANGED <<cr_clock, cr_files, cr_seen>>
  /\ UNCHANGED <<sd_vars, df_vars, sy_vars, mn_vars, ch_vars, rx_vars>>

CrawlRemove ==
  /\ \E path \in DOMAIN cr_dir :
       cr_dir' = [q \in DOMAIN cr_dir \ {path} |-> cr_dir[q]]
  /\ cr_pass' = NoPass
  /\ UNCHANGED <<cr_clock, cr_files, cr_seen>>
  /\ UNCHANGED <<sd_vars, df_vars, sy_vars, mn_vars, ch_vars, rx_vars>>

CrawlTick ==
  /\ cr_clock < MaxTime
  /\ cr_clock' = cr_clock + 1
  /\ UNCHANGED <<cr_dir, cr_files, cr_seen, cr_pass>>
  /\ UNCHANGED <<sd_vars, df_vars, sy_vars, mn_vars, ch_vars, rx_vars>>

CrawlNext == CrawlPass \/ CrawlWrite \/ CrawlRemove \/ CrawlTick

SpecCrawl == CrawlInit /\ [][CrawlNext]_vars

\* C5: a pass reuses the previous record of a path exactly when previous
\* holds the path with a recorded mtime >= the current one and computes the
\* hash otherwise; in the passes of a monitor, a file that is as the last
\* pass saw it is not hashed again, and a file whose mtime has advanced
\* since is.
C5_HashReuse ==
  cr_pass # NoPass =>
    /\ DOMAIN cr_files.v = DOMAIN cr_dir
    /\ cr_pass.computed_md5s \cup cr_pass.reused_md5s = DOMAIN cr_dir
    /\ cr_pass.computed_md5s \cap cr_pass.reused_md5s = {}
    /\ \A path \in DOMAIN cr_dir :
         /\ path \in cr_pass.reused_md5s <=>
              /\ cr_pass.previous.t = "dict"
              /\ path \in DOMAIN cr_pass.previous.v
              /\ cr_pass.previous.v[path].v[1].v >= cr_dir[path].mtime
         /\ path \in cr_pass.reused_md5s => cr_files.v[path] = cr_pass.previous.v[path]
         /\ path \in cr_pass.computed_md5s =>
              cr_files.v[path] = PyTuple(<<PyNum(cr_dir[path].mtime),
                                           PyStr(md5_hash(cr_dir[path].content))>>)
    /\ cr_pass.seen # PyNone =>
         \A path \in DOMAIN cr_dir :
           /\ (path \in DOMAIN cr_pass.seen.v /\ cr_pass.seen.v[path] = cr_dir[path])
                => path \notin cr_pass.computed_md5s
           /\ (path \in DOMAIN cr_pass.seen.v /\ cr_pass.seen.v[path].mtime < cr_dir[path].mtime)
                => path \in cr_pass.computed_md5s

\* A later pass of a monitor: one file untouched since the last pass
\* (reused), the other with an advanced mtime (hashed again).
C5_Witness ==
  /\ cr_pass # NoPass
  /\ cr_pass.seen # PyNone
  /\ DOMAIN cr_pass.seen.v = Paths
  /\ DOMAIN cr_dir = Paths
  /\ cr_pass.seen.v[Path_a] = cr_dir[Path_a]
  /\ cr_pass.seen.v[Path_bc].mtime < cr_dir[Path_bc].mtime
  /\ cr_pass.reused_md5s = {Path_a}
  /\ cr_pass.computed_md5s = {Path_bc}


(***************************************************************************)
(* DirMonitor, FileWriter, RemoteMessageHandler, FileUploader              *)
(***************************************************************************)
\* DirMonitor.__init__: self.files = [list()] for the one root.
NoSnapshot == PyList(<<PyList(<<>>)>>)

\* DirMonitor._crawl_all over the one root.
_crawl_all(dir, files) == PyList(<<crawl_and_hash(dir, files.v[1]).data>>)

\* A faulty variant of WriteItems: a file that cannot be opened is skipped
\* and the loop goes on.
RECURSIVE WriteItemsSkipping(_, _, _, _, _)
WriteItemsSkipping(dir, items, blocked, t, i) ==
  IF i > Len(items) THEN [exc |-> "", dir |-> dir]
  ELSE IF items[i][2].t # "str" \/ ~b64decode(items[i][2].v).ok
       THEN [exc |-> "TypeError", dir |-> dir]
  ELSE IF items[i][1] \in blocked THEN WriteItemsSkipping(dir, items, blocked, t, i + 1)
  ELSE WriteItemsSkipping(
         (items[i][1] :> [mtime |-> t, content |-> b64decode(items[i][2].v).val]) @@ dir,
         items, blocked, t, i + 1)

\* FileWriter.write, the inner loop: decode and write the items in turn; the
\* first failure ends the loop and leaves the files written before it.
RECURSIVE WriteItems(_, _, _, _, _)
WriteItems(dir, items, blocked, t, i) ==
  IF i > Len(items) THEN [exc |-> "", dir |-> dir]
  ELSE IF items[i][2].t # "str" \/ ~b64decode(items[i][2].v).ok
       THEN [exc |-> "TypeError", dir |-> dir]
  ELSE IF items[i][1] \in blocked THEN [exc |-> "IOError", dir |-> dir]
  ELSE WriteItems((items[i][1] :> [mtime |-> t, content |-> b64decode(items[i][2].v).val]) @@ dir,
                  items, blocked, t, i + 1)

\* self._dirs[i] for a second entry: the server has one root.
WriteRoots(w, files) ==
  IF w.exc = "" /\ Len(files.v) > 1 THEN [exc |-> "IndexError", dir |-> w.dir] ELSE w

\* FileWriter.write(files) at time t; `blocked` are the paths open() fails on.
write(dir, blocked, files, t) ==
  IF ~IsSeq(files) THEN [exc |-> "TypeError", dir |-> dir]
  ELSE IF files.v = <<>> THEN [exc |-> "", dir |-> dir]
  ELSE IF files.v[1].t # "dict" THEN [exc |-> "AttributeError", dir |-> dir]
  ELSE WriteRoots(WriteItems(dir, Items(files.v[1]), blocked, t, 1), files)

Raised(e, dir) == [exc |-> e, resp |-> PyNone, dir |-> dir]

Returned(resp, dir) == [exc |-> "", resp |-> resp, dir |-> dir]

\* resp.body['diff'] = diff
DiffAnswer(d, dir, t) ==
  IF d.exc # "" THEN Raised(d.exc, dir)
  ELSE Returned(WithBody(Message(DIFF_RESPONSE, t), K_diff, d.results), dir)

\* self._writer.write(uploaded_files); resp = Message(UPLOAD_RESPONSE)
UploadAnswer(w, t) ==
  IF w.exc # "" THEN Raised(w.exc, w.dir) ELSE Returned(Message(UPLOAD_RESPONSE, t), w.dir)

\* A faulty variant of handle_message: a PING_REQUEST is answered with the
\* response of another request.
handle_message_unpaired(req, files, dir, blocked, t) ==
  IF req.type = PING_REQUEST THEN Returned(Message(UPLOAD_RESPONSE, t), dir)
  ELSE IF req.type = DIFF_REQUEST
       THEN IF K_files \notin DOMAIN req.body.v THEN Raised("KeyError", dir)
            ELSE DiffAnswer(diff(req.body.v[K_files], files), dir, t)
  ELSE IF req.type = UPLOAD_REQUEST
       THEN IF K_uploaded_files \notin DOMAIN req.body.v THEN Raised("KeyError", dir)
            ELSE UploadAnswer(write(dir, blocked, req.body.v[K_uploaded_files], t), t)
  ELSE Raised("NameError", dir)

\* A faulty variant of handle_message: any other type is answered like a
\* PING_REQUEST.
handle_message_lenient(req, files, dir, blocked, t) ==
  IF req.type = DIFF_REQUEST
  THEN IF K_files \notin DOMAIN req.body.v THEN Raised("KeyError", dir)
       ELSE DiffAnswer(diff(req.body.v[K_files], files), dir, t)
  ELSE IF req.type = UPLOAD_REQUEST
       THEN IF K_uploaded_files \notin DOMAIN req.body.v THEN Raised("KeyError", dir)
            ELSE UploadAnswer(write(dir, blocked, req.body.v[K_uploaded_files], t), t)
  ELSE Returned(Message(PING_RESPONSE, t), dir)

\* RemoteMessageHandler.handle_message(req) at time t.  The else branch
\* reads the names `message` and `error`, which nothing defines.
handle_message(req, files, dir, blocked, t) ==
  IF req.type = PING_REQUEST THEN Returned(Message(PING_RESPONSE, t), dir)
  ELSE IF req.type = DIFF_REQUEST
       THEN IF K_files \notin DOMAIN req.body.v THEN Raised("KeyError", dir)
            ELSE DiffAnswer(diff(req.body.v[K_files], files), dir, t)
  ELSE IF req.type = UPLOAD_REQUEST
       THEN IF K_uploaded_files \notin DOMAIN req.body.v THEN Raised("KeyError", dir)
            ELSE UploadAnswer(write(dir, blocked, req.body.v[K_uploaded_files], t), t)
  ELSE Raised("NameError", dir)

\* The paths a DIFF_RESPONSE names for the one root.
Named(files) ==
  IF IsSeq(files) /\ files.v # <<>> /\ IsSeq(files.v[1])
  THEN {files.v[1].v[j].v : j \in 1..Len(files.v[1].v)}
  ELSE {}

\* A faulty variant of _files_to_upload: every file of the root is read,
\* named or not.
_files_to_upload_all(files, dir) ==
  IF ~(IsSeq(files) /\ \A i \in 1..Len(files.v) : IsSeq(files.v[i]))
  THEN [exc |-> "TypeError", results |-> PyNone]
  ELSE IF Len(files.v) > 1 THEN [exc |-> "IndexError", results |-> PyNone]
  ELSE IF \E path \in Named(files) : isabs(path) THEN [exc |-> "AssertionError", results |-> PyNone]
  ELSE IF \E path \in Named(files) : path \notin DOMAIN dir THEN [exc |-> "IOError", results |-> PyNone]
  ELSE [exc |-> "",
        results |-> PyList([i \in 1..Len(files.v) |->
                      PyDict([path \in DOMAIN dir |-> PyStr(b64encode(dir[path].content))])])]

\* FileUploader._files_to_upload(files): the content of every named file,
\* base64 encoded.
_files_to_upload(files, dir) ==
  IF ~(IsSeq(files) /\ \A i \in 1..Len(files.v) : IsSeq(files.v[i]))
  THEN [exc |-> "TypeError", results |-> PyNone]
  ELSE IF Len(files.v) > 1 THEN [exc |-> "IndexError", results |-> PyNone]
  ELSE IF \E path \in Named(files) : isabs(path) THEN [exc |-> "AssertionError", results |-> PyNone]
  ELSE IF \E path \in Named(files) : path \notin DOMAIN dir THEN [exc |-> "IOError", results |-> PyNone]
  ELSE [exc |-> "",
        results |-> PyList([i \in 1..Len(files.v) |->
                      PyDict([path \in Named(files) |-> PyStr(b64encode(dir[path].content))])])]

(***************************************************************************)
(* The client and the server: LocalClient.run with its FileUploader,       *)
(* RemoteServer.run with its handler, the two monitor threads, a second    *)
(* peer that sends single messages, and the files of both sides.           *)
(***************************************************************************)
MaxConns == 2

\* A TCP connection: the bytes in flight each way and the state of each end
\* (the server end is pending until accept returns it).
NewConn ==
  [c2s |-> <<>>, s2c |-> <<>>, cend |-> "open", send |-> "pending"]

\* socket.close() by the server: StreamHandler.__exit__, or the end of the
\* process.  Bytes nobody will read are dropped.
Closed(conn) == [conn EXCEPT !.send = "closed", !.c2s = <<>>]

\* socket.close() by the peer that connected.
Hung(conn) == [conn EXCEPT !.cend = "closed", !.s2c = <<>>]

\* socket.recv on the server end took all the bytes in flight.
Taken(conn) == [conn EXCEPT !.c2s = <<>>]

\* streamHandler.sendMessage(response)
Respond(conn, response) ==
  [conn EXCEPT !.s2c = sendMessage(@, response, TOKEN)]

File(t, content) == [mtime |-> t, content |-> content]

\* The client's root at the start: two files written before it.
ClientDir == Path_a :> File(0, Content_hi) @@ Path_bc :> File(0, Content_ho)

\* The types the second peer sends: a request the server knows, a response
\* type, and a number that is no type.
ProbeTypes == {PING_REQUEST, PING_RESPONSE, UPLOAD_RESPONSE + 1}

\* Both processes have started: each DirMonitor has crawled once, the server
\* listens on an empty root, in which b/c can or cannot be written.
Init ==
  /\ clock = 1
  /\ conns = <<>>
  /\ cl_dir = ClientDir
  /\ cl_files = _crawl_all(cl_dir, NoSnapshot)
  /\ cl_pc = "connect"
  /\ cl_conn = 0
  /\ cl_buffer = <<>>
  /\ cl_sent = NoFiles
  /\ cl_cycle = "none"
  /\ sv_dir = NoFiles
  /\ sv_files = _crawl_all(sv_dir, NoSnapshot)
  /\ sv_pc = "accept"
  /\ sv_conn = 0
  /\ sv_buffer = <<>>
  /\ sv_blocked \in {{}, {Path_bc}}
  /\ sv_exc = ""
  /\ pr_pc = "idle"
  /\ pr_conn = 0
  /\ SerdeRest /\ DiffRest /\ CrawlRest /\ MonRest /\ ChanRest /\ RecvRest

Rest == <<sd_vars, df_vars, cr_vars, mn_vars, ch_vars, rx_vars>>

ClientVars == <<cl_dir, cl_files, cl_pc, cl_conn, cl_buffer, cl_sent, cl_cycle>>

ServerVars == <<sv_dir, sv_files, sv_pc, sv_conn, sv_buffer, sv_blocked, sv_exc>>

ProbeVars == <<pr_pc, pr_conn>>

\* The user rewrites a file under the client's root with another content,
\* at a later time than anything that happened before.  cl_cycle forgets
\* the cycles made with the old content.
ClientWrite ==
  /\ clock < MaxTime
  /\ clock' = clock + 1
  /\ \E path \in DOMAIN cl_dir, content \in Contents :
       /\ content # cl_dir[path].content
       /\ cl_dir' = [cl_dir EXCEPT ![path] = File(clock + 1, content)]
  /\ cl_cycle' = "none"
  /\ UNCHANGED <<conns, cl_files, cl_pc, cl_conn, cl_buffer, cl_sent, ServerVars, ProbeVars, Rest>>

\* DirMonitor._thread_main of the client: one _crawl_all.
ClientCrawl ==
  /\ cl_pc # "stopped"
  /\ cl_files' = _crawl_all(cl_dir, cl_files)
  /\ UNCHANGED <<clock, conns, cl_dir, cl_pc, cl_conn, cl_buffer, cl_sent, cl_cycle,
                 ServerVars, ProbeVars, Rest>>

\* DirMonitor._thread_main of the server: one _crawl_all.
ServerCrawl ==
  /\ sv_pc # "stopped"
  /\ sv_files' = _crawl_all(sv_dir, sv_files)
  /\ UNCHANGED <<clock, conns, ClientVars, sv_dir, sv_pc, sv_conn, sv_buffer, sv_blocked, sv_exc,
                 ProbeVars, Rest>>

\* LocalClient._connect: the connection is made as soon as the server
\* listens, before accept returns it.
ClientConnect ==
  /\ cl_pc = "connect"
  /\ sv_pc # "stopped"
  /\ Len(conns) < MaxConns
  /\ conns' = Append(conns, NewConn)
  /\ cl_conn' = Len(conns) + 1
  /\ cl_buffer' = <<>>
  /\ cl_pc' = "diff_send"
  /\ UNCHANGED <<clock, cl_dir, cl_files, cl_sent, cl_cycle, ServerVars, ProbeVars, Rest>>

\* upload_files: diff_request.body['files'] = self._monitor.files;
\* sendMessage(diff_request).  A cycle begins: cl_cycle is "clean" when the
\* snapshot sent is that of the files as they are and while no file changes,
\* "done" once such a cycle has been answered.
ClientSendDiff ==
  /\ cl_pc = "diff_send"
  /\ conns' = [conns EXCEPT ![cl_conn].c2s =
                 sendMessage(@, WithBody(Message(DIFF_REQUEST, clock), K_files, cl_files), TOKEN)]
  /\ cl_pc' = "diff_recv"
  /\ cl_cycle' = IF cl_cycle = "done" THEN "done"
                 ELSE IF cl_files = _crawl_all(cl_dir, cl_files) THEN "clean"
                 ELSE "none"
  /\ UNCHANGED <<clock, cl_dir, cl_files, cl_conn, cl_buffer, cl_sent, ServerVars, ProbeVars, Rest>>

\* What upload_files does with what recvMessage gave it for the
\* DIFF_RESPONSE: "wait" (the frame is incomplete), "raise" (an exception
\* that run does not catch: from deserialise, body['diff'], len(files[0])
\* or _files_to_upload) or "send" (the UPLOAD_REQUEST).
Uploading(u, t) ==
  IF u.exc # "" THEN [kind |-> "raise", request |-> PyNone]
  ELSE [kind |-> "send",
        request |-> WithBody(Message(UPLOAD_REQUEST, t), K_uploaded_files, u.results)]

DiffReceived(r, dir, t) ==
  IF r.status = "none" THEN [kind |-> "wait", request |-> PyNone]
  ELSE IF r.status = "raise" THEN [kind |-> "raise", request |-> PyNone]
  ELSE IF K_diff \notin DOMAIN r.message.body.v THEN [kind |-> "raise", request |-> PyNone]
  ELSE IF ~IsSeq(r.message.body.v[K_diff]) \/ r.message.body.v[K_diff].v = <<>>
       THEN [kind |-> "raise", request |-> PyNone]
  ELSE Uploading(_files_to_upload(r.message.body.v[K_diff], dir), t)

\* The contents read for an UPLOAD_REQUEST, by path.
Sent(files, dir) ==
  IF Named(files) = {} THEN NoFiles ELSE [path \in Named(files) |-> dir[path].content]

ClientDiffStep(r, o) ==
  /\ cl_buffer' = r.buffer
  /\ cl_pc' = CASE o.kind = "wait" -> "diff_recv"
                [] o.kind = "raise" -> "stopped"
                [] OTHER -> "upload_recv"
  /\ cl_conn' = IF o.kind = "raise" THEN 0 ELSE cl_conn
  /\ conns' = [conns EXCEPT ![cl_conn] =
                 CASE o.kind = "wait" -> [@ EXCEPT !.s2c = <<>>]
                   [] o.kind = "raise" -> Hung(@)
                   [] OTHER -> [@ EXCEPT !.s2c = <<>>,
                                         !.c2s = sendMessage(@, o.request, TOKEN)]]
  /\ cl_sent' = IF o.kind = "send" THEN Sent(r.result.message.body.v[K_diff], cl_dir) ELSE cl_sent

\* upload_files: diff_response = recvMessage(); the files it names are read
\* and sent in an UPLOAD_REQUEST.
ClientRecvDiff ==
  /\ cl_pc = "diff_recv"
  /\ conns[cl_conn].s2c # <<>>
  /\ ClientDiffStep(recvMessage(cl_buffer, conns[cl_conn].s2c, TOKEN, clock),
                    DiffReceived(recvMessage(cl_buffer, conns[cl_conn].s2c, TOKEN, clock).result,
                                 cl_dir, clock))
  /\ UNCHANGED <<clock, cl_dir, cl_files, cl_cycle, ServerVars, ProbeVars, Rest>>

ClientUploadStep(r) ==
  /\ cl_buffer' = r.buffer
  /\ cl_pc' = CASE r.result.status = "none" -> "upload_recv"
                [] r.result.status = "raise" -> "stopped"
                [] OTHER -> "diff_send"
  /\ cl_conn' = IF r.result.status = "raise" THEN 0 ELSE cl_conn
  /\ conns' = [conns EXCEPT ![cl_conn] =
                 IF r.result.status = "raise" THEN Hung(@) ELSE [@ EXCEPT !.s2c = <<>>]]
  /\ cl_cycle' = IF r.result.status = "ok" /\ cl_cycle # "none" THEN "done" ELSE cl_cycle
  /\ cl_sent' = IF r.result.status = "ok" THEN NoFiles ELSE cl_sent

\* upload_files: upload_response = recvMessage(); then time.sleep(3.0) and
\* the next cycle.
ClientRecvUpload ==
  /\ cl_pc = "upload_recv"
  /\ conns[cl_conn].s2c # <<>>
  /\ ClientUploadStep(recvMessage(cl_buffer, conns[cl_conn].s2c, TOKEN, clock))
  /\ UNCHANGED <<clock, cl_dir, cl_files, ServerVars, ProbeVars, Rest>>

\* A faulty variant of ClientDisconnect: the exception is not caught and
\* leaves run.
ClientDisconnectFatal ==
  /\ cl_pc \in {"diff_recv", "upload_recv"}
  /\ conns[cl_conn].s2c = <<>>
  /\ conns' = [conns EXCEPT ![cl_conn] = Hung(@)]
  /\ cl_conn' = 0
  /\ cl_buffer' = <<>>
  /\ cl_sent' = NoFiles
  /\ cl_cycle' = IF cl_cycle = "done" THEN "done" ELSE "none"
  /\ cl_pc' = "stopped"
  /\ UNCHANGED <<clock, cl_dir, cl_files, ServerVars, ProbeVars, Rest>>

\* recv raises socket.timeout (nothing came for SOCKET_TIMEOUT_SECS) or
\* returns no byte (the server closed): run catches both, disconnects and
\* sleeps before it connects again.
ClientDisconnect ==
  /\ cl_pc \in {"diff_recv", "upload_recv"}
  /\ conns[cl_conn].s2c = <<>>
  /\ conns' = [conns EXCEPT ![cl_conn] = Hung(@)]
  /\ cl_conn' = 0
  /\ cl_buffer' = <<>>
  /\ cl_sent' = NoFiles
  /\ cl_cycle' = IF cl_cycle = "done" THEN "done" ELSE "none"
  /\ cl_pc' = "sleep"
  /\ UNCHANGED <<clock, cl_dir, cl_files, ServerVars, ProbeVars, Rest>>

\* time.sleep(1.0) is over: the loop of run starts again.
ClientWake ==
  /\ cl_pc = "sleep"
  /\ cl_pc' = "connect"
  /\ UNCHANGED <<clock, conns, cl_dir, cl_files, cl_conn, cl_buffer, cl_sent, cl_cycle,
                 ServerVars, ProbeVars, Rest>>

\* A faulty variant of ServerAccept: accept() is called while a connection
\* is being served.
ServerAcceptBusy ==
  /\ sv_pc \in {"accept", "serve"}
  /\ \E id \in DOMAIN conns :
       /\ conns[id].send = "pending"
       /\ \A other \in DOMAIN conns : conns[other].send = "pending" => id <= other
       /\ sv_conn' = id
       /\ conns' = [conns EXCEPT ![id].send = "accepted"]
  /\ sv_buffer' = <<>>
  /\ sv_pc' = "serve"
  /\ UNCHANGED <<clock, ClientVars, sv_dir, sv_files, sv_blocked, sv_exc, ProbeVars, Rest>>

\* accept() returns the oldest pending connection.
ServerAccept ==
  /\ sv_pc = "accept"
  /\ \E id \in DOMAIN conns :
       /\ conns[id].send = "pending"
       /\ \A other \in DOMAIN conns : conns[other].send = "pending" => id <= other
       /\ sv_conn' = id
       /\ conns' = [conns EXCEPT ![id].send = "accepted"]
  /\ sv_buffer' = <<>>
  /\ sv_pc' = "serve"
  /\ UNCHANGED <<clock, ClientVars, sv_dir, sv_files, sv_blocked, sv_exc, ProbeVars, Rest>>

\* One pass of the inner loop of run after recvMessage's deserialise:
\* "wait" (recvMessage goes on receiving), "raise" (an exception that is
\* no socket.error leaves run) or "sent" (the response went out).
Answered(h) ==
  IF h.exc # "" THEN [kind |-> "raise", exc |-> h.exc, response |-> PyNone, dir |-> h.dir]
  ELSE IF h.resp.type % 2 # 1
       THEN [kind |-> "raise", exc |-> "AssertionError", response |-> PyNone, dir |-> h.dir]
  ELSE [kind |-> "sent", exc |-> "", response |-> h.resp, dir |-> h.dir]

Outcome(r, files, dir, blocked, t) ==
  IF r.status = "none" THEN [kind |-> "wait", exc |-> "", response |-> PyNone, dir |-> dir]
  ELSE IF r.status = "raise"
       THEN [kind |-> "raise", exc |-> r.exc, response |-> PyNone, dir |-> dir]
  ELSE Answered(handle_message(r.message, files, dir, blocked, t))

\* An exception leaves run: the with blocks close the connection and the
\* listening socket, the process ends.
ServerStep(buffer, o) ==
  /\ sv_buffer' = buffer
  /\ sv_dir' = o.dir
  /\ sv_pc' = IF o.kind = "raise" THEN "stopped" ELSE "serve"
  /\ sv_exc' = o.exc
  /\ sv_conn' = IF o.kind = "raise" THEN 0 ELSE sv_conn
  /\ conns' = CASE o.kind = "wait" -> [conns EXCEPT ![sv_conn] = Taken(@)]
                [] o.kind = "sent" -> [conns EXCEPT ![sv_conn] = Respond(Taken(@), o.response)]
                [] OTHER -> [id \in DOMAIN conns |-> Closed(conns[id])]

\* request = recvMessage(); response = handle_message(request);
\* assert response.type % 2 == 1; sendMessage(response)
ServerRecv ==
  /\ sv_pc = "serve"
  /\ conns[sv_conn].c2s # <<>>
  /\ ServerStep(recvMessage(sv_buffer, conns[sv_conn].c2s, TOKEN, clock).buffer,
                Outcome(recvMessage(sv_buffer, conns[sv_conn].c2s, TOKEN, clock).result,
                        sv_files, sv_dir, sv_blocked, clock))
  /\ UNCHANGED <<clock, ClientVars, sv_files, sv_blocked, ProbeVars, Rest>>

\* A server whose run ends with the connection.
ServerDisconnectFatal ==
  /\ sv_pc = "serve"
  /\ conns[sv_conn].c2s = <<>>
  /\ conns' = [conns EXCEPT ![sv_conn] = Closed(@)]
  /\ sv_conn' = 0
  /\ sv_pc' = "stopped"
  /\ UNCHANGED <<clock, ClientVars, sv_dir, sv_files, sv_buffer, sv_blocked, sv_exc,
                 ProbeVars, Rest>>

\* recv raises socket.timeout, or returns no byte because the peer closed:
\* the inner loop breaks and the with block closes the connection.
ServerDisconnect ==
  /\ sv_pc = "serve"
  /\ conns[sv_conn].c2s = <<>>
  /\ conns' = [conns EXCEPT ![sv_conn] = Closed(@)]
  /\ sv_conn' = 0
  /\ sv_pc' = "accept"
  /\ UNCHANGED <<clock, ClientVars, sv_dir, sv_files, sv_buffer, sv_blocked, sv_exc,
                 ProbeVars, Rest>>

\* Another peer connects and sends one message of some type.
ProbeSend ==
  /\ pr_pc = "idle"
  /\ sv_pc # "stopped"
  /\ Len(conns) < MaxConns
  /\ \E ty \in ProbeTypes :
       conns' = Append(conns, [NewConn EXCEPT !.c2s = sendMessage(@, Message(ty, clock), TOKEN)])
  /\ pr_conn' = Len(conns) + 1
  /\ pr_pc' = "recv"
  /\ UNCHANGED <<clock, ClientVars, ServerVars, Rest>>

\* It reads what came back and closes the connection.
ProbeRecv ==
  /\ pr_pc = "recv"
  /\ conns[pr_conn].s2c # <<>>
  /\ conns' = [conns EXCEPT ![pr_conn] = Hung(@)]
  /\ pr_conn' = 0
  /\ pr_pc' = "idle"
  /\ UNCHANGED <<clock, ClientVars, ServerVars, Rest>>

\* Nothing came back: it closes the connection.
ProbeClose ==
  /\ pr_pc = "recv"
  /\ conns[pr_conn].s2c = <<>>
  /\ conns' = [conns EXCEPT ![pr_conn] = Hung(@)]
  /\ pr_conn' = 0
  /\ pr_pc' = "idle"
  /\ UNCHANGED <<clock, ClientVars, ServerVars, Rest>>

Next ==
  \/ ClientWrite \/ ClientCrawl \/ ServerCrawl
  \/ ClientConnect \/ ClientSendDiff \/ ClientRecvDiff \/ ClientRecvUpload \/ ClientDisconnect
  \/ ClientWake
  \/ ServerAccept \/ ServerRecv \/ ServerDisconnect
  \/ ProbeSend \/ ProbeRecv \/ ProbeClose

Spec == Init /\ [][Next]_vars

\* The same system while the user leaves the client's files alone.
NextPeers ==
  \/ ClientCrawl \/ ServerCrawl
  \/ ClientConnect \/ ClientSendDiff \/ ClientRecvDiff \/ ClientRecvUpload \/ ClientDisconnect
  \/ ClientWake
  \/ ServerAccept \/ ServerRecv \/ ServerDisconnect
  \/ ProbeSend \/ ProbeRecv \/ ProbeClose

SpecPeers == Init /\ [][NextPeers]_vars

(***************************************************************************)
(* Properties of the client and the server                                 *)
(***************************************************************************)
\* What the client's next recvMessage returns from the bytes in flight.
ClientReply == deserialise(cl_buffer \o conns[cl_conn].s2c, TOKEN, clock)

\* What the server's next recvMessage returns from the bytes in flight.
ServerRequest == deserialise(sv_buffer \o conns[sv_conn].c2s, TOKEN, clock)

\* C6 as stated: once a cycle that began with a current snapshot has been
\* answered and no file of the client has changed since, every later
\* DIFF_RESPONSE names no file and every later UPLOAD_REQUEST carries no
\* file, wherever the server's monitor is in its own cycle.
C6_NextCycleEmpty ==
  /\ (cl_cycle = "done" /\ cl_pc = "diff_recv" /\ conns[cl_conn].s2c # <<>>
        /\ ClientReply.status = "ok" /\ K_diff \in DOMAIN ClientReply.message.body.v)
       => Named(ClientReply.message.body.v[K_diff]) = {}
  /\ (cl_cycle = "done" /\ cl_pc = "upload_recv") => DOMAIN cl_sent = {}

\* C7: when the UPLOAD_RESPONSE for an UPLOAD_REQUEST reaches the client,
\* every path of that request is a file under the server's root and holds
\* the bytes the client read for it.
C7_Uploaded ==
  (cl_pc = "upload_recv" /\ conns[cl_conn].s2c # <<>>
     /\ ClientReply.status = "ok" /\ ClientReply.message.type = UPLOAD_RESPONSE)
    => \A path \in DOMAIN cl_sent :
         path \in DOMAIN sv_dir /\ sv_dir[path].content = cl_sent[path]

\* The first cycle against the empty root: the response to the upload of
\* the files a ("hi") and b/c is in flight, and both files are on the server.
C7_Witness ==
  /\ cl_pc = "upload_recv"
  /\ conns[cl_conn].s2c # <<>>
  /\ ClientReply.status = "ok"
  /\ ClientReply.message.type = UPLOAD_RESPONSE
  /\ DOMAIN cl_sent = Paths
  /\ cl_sent[Path_a] = Content_hi
  /\ DOMAIN sv_dir = Paths
  /\ sv_dir[Path_a].content = Content_hi
  /\ sv_dir[Path_bc].content = Content_ho

\* The bytes a step appends to what connection id carries to its peer.
Appended(old, new) == SubSeq(new, Len(old) + 1, Len(new))

C8_Step ==
  \A id \in DOMAIN conns :
    Len(conns'[id].s2c) > Len(conns[id].s2c) =>
      /\ sv_pc = "serve"
      /\ id = sv_conn
      /\ conns[id].s2c = SubSeq(conns'[id].s2c, 1, Len(conns[id].s2c))
      /\ ServerRequest.status = "ok"
      /\ ServerRequest.message.type \in {PING_REQUEST, DIFF_REQUEST, UPLOAD_REQUEST}
      /\ deserialise(Appended(conns[id].s2c, conns'[id].s2c), TOKEN, clock).status = "ok"
      /\ deserialise(Appended(conns[id].s2c, conns'[id].s2c), TOKEN, clock).unused = <<>>
      /\ deserialise(Appended(conns[id].s2c, conns'[id].s2c), TOKEN, clock).message.type
           = ServerRequest.message.type + 1
      /\ deserialise(Appended(conns[id].s2c, conns'[id].s2c), TOKEN, clock).message.type % 2 = 1

\* C8: whenever bytes are sent to a peer, they are one message, sent by the
\* server on the connection it serves, of an odd type that is the type of
\* the request it has just received plus one, that request being a
\* PING_REQUEST, a DIFF_REQUEST or an UPLOAD_REQUEST; so no message of an
\* even type is ever sent.
C8_ResponseParity == [][C8_Step]_vars

\* A PING_RESPONSE is in flight to the peer that sent a PING_REQUEST and a
\* DIFF_RESPONSE to the client that sent a DIFF_REQUEST.
C8_Witness ==
  /\ pr_pc = "recv"
  /\ conns[pr_conn].s2c # <<>>
  /\ deserialise(conns[pr_conn].s2c, TOKEN, clock).message.type = PING_RESPONSE
  /\ cl_pc = "diff_recv"
  /\ conns[cl_conn].s2c # <<>>
  /\ ClientReply.status = "ok"
  /\ ClientReply.message.type = DIFF_RESPONSE

C9_Step ==
  (sv_pc = "serve" /\ conns[sv_conn].c2s # <<>> /\ conns'[sv_conn].c2s = <<>>
     /\ ServerRequest.status = "ok"
     /\ ServerRequest.message.type \notin {PING_REQUEST, DIFF_REQUEST, UPLOAD_REQUEST})
    => /\ \A id \in DOMAIN conns : Len(conns'[id].s2c) <= Len(conns[id].s2c)
       /\ sv_dir' = sv_dir
       /\ conns'[sv_conn].send = "closed"

\* C9: when the server receives a whole message of a type other than
\* PING_REQUEST, DIFF_REQUEST and UPLOAD_REQUEST, it sends nothing, writes
\* no file and the connection the message came on is closed.
C9_Rejected == [][C9_Step]_vars

\* A message of a type the handler does not know has been received: the
\* handler raised, nothing came back and the connection is closed.
C9_Witness ==
  /\ sv_exc = "NameError"
  /\ pr_pc = "recv"
  /\ conns[pr_conn].send = "closed"
  /\ conns[pr_conn].s2c = <<>>
  /\ DOMAIN sv_dir = {}

Accepted == {id \in DOMAIN conns : conns[id].send = "accepted"}

C10_State ==
  /\ Cardinality(Accepted) <= 1
  /\ \A id \in Accepted :
       /\ sv_pc = "serve"
       /\ sv_conn = id
       /\ \A other \in 1..(id - 1) : conns[other].send = "closed"
  /\ \A id \in DOMAIN conns : conns[id].send = "pending" => conns[id].s2c = <<>>

C10_Step ==
  \A id \in DOMAIN conns :
    (conns[id].send = "pending" /\ conns'[id].send = "accepted") =>
      /\ sv_pc = "accept"
      /\ Accepted = {}

\* C10: at any time at most one accepted connection is open, it is the one
\* the server serves and every connection accepted before it is closed; a
\* connection is accepted only while the server listens and no accepted
\* connection is open; a connection not yet accepted is sent nothing.
C10_OneConnection == []C10_State /\ [][C10_Step]_vars

\* The second connection is served after the first has been closed.
C10_Witness ==
  /\ Len(conns) = 2
  /\ conns[1].send = "closed"
  /\ conns[2].send = "accepted"
  /\ conns[2].s2c # <<>>

(***************************************************************************)
(* The same system with a peer that also sends frames the server cannot   *)
(* read: a body that does not match the checksum of its header, and bodies *)
(* with a matching checksum that are no JSON object.                       *)
(***************************************************************************)
\* A PING_REQUEST whose last body byte was changed after the header was
\* made, a frame whose body is "{", and a frame whose body is "7".
BadFrames(t) ==
  {[serialise(Message(PING_REQUEST, t), TOKEN)
      EXCEPT ![Len(serialise(Message(PING_REQUEST, t), TOKEN))] = 32],
   Frame(PING_REQUEST, <<123>>, TOKEN),
   Frame(PING_REQUEST, <<55>>, TOKEN)}

ProbeSendBad ==
  /\ pr_pc = "idle"
  /\ sv_pc # "stopped"
  /\ Len(conns) < MaxConns
  /\ \E frame \in BadFrames(clock) :
       conns' = Append(conns, [NewConn EXCEPT !.c2s = frame])
  /\ pr_conn' = Len(conns) + 1
  /\ pr_pc' = "recv"
  /\ UNCHANGED <<clock, ClientVars, ServerVars, Rest>>

\* LocalClient._connect raises socket.error (nothing listens any more): run
\* logs it, _disconnect closes the socket that never connected, and the
\* client sleeps.
ClientRefused ==
  /\ cl_pc = "connect"
  /\ sv_pc = "stopped"
  /\ cl_pc' = "sleep"
  /\ UNCHANGED <<clock, conns, cl_dir, cl_files, cl_conn, cl_buffer, cl_sent, cl_cycle,
                 ServerVars, ProbeVars, Rest>>

\* A client that monitors no root, or two roots, sends its DIFF_REQUEST to
\* the server, which monitors one.
MismatchedLists == {PyList(<<>>), PyList(<<EmptyDict, EmptyDict>>)}

ProbeSendMismatch ==
  /\ pr_pc = "idle"
  /\ sv_pc # "stopped"
  /\ Len(conns) < MaxConns
  /\ \E files \in MismatchedLists :
       conns' = Append(conns,
                  [NewConn EXCEPT !.c2s =
                     sendMessage(@, WithBody(Message(DIFF_REQUEST, clock), K_files, files), TOKEN)])
  /\ pr_conn' = Len(conns) + 1
  /\ pr_pc' = "recv"
  /\ UNCHANGED <<clock, ClientVars, ServerVars, Rest>>

\* main: a HumaReadbleException that leaves run is caught and its message
\* printed; any other exception ends the process with a traceback.
main_report(exc) ==
  IF exc = "" THEN "" ELSE IF exc = "HumaReadbleException" THEN "message" ELSE "traceback"

NextFaults == NextPeers \/ ProbeSendBad \/ ProbeSendMismatch \/ ClientRefused

SpecFaults == Init /\ [][NextFaults]_vars

\* The server's recvMessage takes the bytes in flight on its connection.
ServerTakes ==
  sv_pc = "serve" /\ conns[sv_conn].c2s # <<>> /\ conns'[sv_conn].c2s = <<>>

\* What it then has in its buffer is a whole frame with a checksum
\* mismatch, a malformed body or a type that is no request.
IntegrityError(r) ==
  \/ r.status = "raise"
  \/ r.status = "ok" /\ r.message.type \notin {PING_REQUEST, DIFF_REQUEST, UPLOAD_REQUEST}

C11_Step ==
  (ServerTakes /\ IntegrityError(ServerRequest))
    => /\ conns'[sv_conn].send = "closed"
       /\ sv_pc' = "accept"
       /\ cl_pc' # "stopped"

\* C11 as stated: when the server receives a frame with a checksum
\* mismatch, a malformed body or an unknown type, it closes the connection
\* the frame came on and listens again; neither process stops.
C11_OnlyConnection == [][C11_Step]_vars

\* The connections the client has sent on or received from in this step.
ClientUsed ==
  {id \in DOMAIN conns :
     /\ id # pr_conn
     /\ \/ Len(conns'[id].c2s) > Len(conns[id].c2s)
        \/ (conns[id].s2c # <<>> /\ conns'[id].s2c = <<>> /\ conns'[id].cend = "open")}

C12_State ==
  /\ cl_pc \in {"diff_send", "diff_recv", "upload_recv"}
       => cl_conn \in DOMAIN conns /\ conns[cl_conn].cend = "open"
  /\ cl_pc \in {"connect", "sleep", "stopped"} => cl_conn = 0

C12_Step ==
  /\ (cl_pc \in {"diff_recv", "upload_recv"} /\ cl_pc' # cl_pc /\ conns[cl_conn].s2c = <<>>)
       => /\ cl_pc' = "sleep"
          /\ conns'[cl_conn].cend = "closed"
          /\ cl_conn' = 0
  /\ (cl_pc = "connect" /\ cl_pc' # cl_pc)
       => \/ cl_pc' = "diff_send" /\ cl_conn' # 0
          \/ cl_pc' = "sleep" /\ cl_conn' = 0 /\ conns' = conns
  /\ (cl_pc = "sleep" /\ cl_pc' # cl_pc) => cl_pc' = "connect"
  /\ (cl_conn' # cl_conn /\ cl_conn' # 0)
       => cl_conn = 0 /\ cl_conn' \notin DOMAIN conns /\ conns'[cl_conn'].cend = "open"
  /\ \A id \in ClientUsed : id = cl_conn /\ conns[id].cend = "open"
  /\ (cl_pc # "stopped" /\ cl_pc' = "stopped") => conns[cl_conn].s2c # <<>>

\* C12: a timeout or a disconnect in the inner cycle, or a failed connect,
\* leaves the client in its loop with the socket closed: it sleeps and
\* connects again with a new socket; the client sends and receives only on
\* the open socket of its current connection, never on one it has closed;
\* the client stops only on what a received frame makes it raise.
C12_Reconnects == []C12_State /\ [][C12_Step]_vars

\* The server has stopped on a file it could not write: the client saw the
\* disconnect, closed its socket, was refused a new connection and sleeps.
C12_Witness ==
  /\ cl_pc = "sleep"
  /\ sv_exc = "IOError"
  /\ Len(conns) = 1
  /\ conns[1].cend = "closed"
  /\ cl_conn = 0

\* The server takes a DIFF_REQUEST whose list of snapshots has another
\* length than its own.
Mismatch(r) ==
  /\ r.status = "ok"
  /\ r.message.type = DIFF_REQUEST
  /\ K_files \in DOMAIN r.message.body.v
  /\ IsSeq(r.message.body.v[K_files])
  /\ Len(r.message.body.v[K_files].v) # Len(sv_files.v)

C13_Step ==
  (ServerTakes /\ Mismatch(ServerRequest))
    => /\ \A id \in DOMAIN conns : Len(conns'[id].s2c) <= Len(conns[id].s2c)
       /\ sv_pc' = "stopped"
       /\ main_report(sv_exc') = "message"

\* C13 as stated: on a DIFF_REQUEST with a snapshot list of another length
\* than the number of the server's roots, nothing is sent back, the server
\* process ends, and what it reports is a plain message.
C13_PlainMessage == [][C13_Step]_vars

\* The server leaves the state in which it serves a connection.
ServerLeaves == sv_pc = "serve" /\ sv_pc' # "serve"

\* recv on the served connection has nothing to return: it times out, or
\* returns no byte when the peer has closed.
NothingToRead == sv_pc = "serve" /\ conns[sv_conn].c2s = <<>>

C15_Step ==
  (NothingToRead /\ ServerLeaves) =>
     /\ conns'[sv_conn].send = "closed"
     /\ conns'[sv_conn].s2c = conns[sv_conn].s2c
     /\ sv_pc' = "accept"
     /\ sv_exc' = ""

\* Once a connection is closed nothing more is sent on it.
C15_Silent ==
  \A id \in DOMAIN conns :
     conns[id].send = "closed" => Len(conns'[id].s2c) <= Len(conns[id].s2c)

C15_Listening ==
  (sv_pc = "accept" /\ \E id \in DOMAIN conns : conns[id].send = "pending")
     => ENABLED ServerAccept

\* C15: when the server's read times out or returns no byte, the server
\* closes that connection, sends nothing more on it and listens again,
\* where it accepts the next pending connection.
C15_BackToListening == [][C15_Step /\ C15_Silent]_vars /\ []C15_Listening

\* The server has closed a first connection and serves a second one.
C15_Witness ==
  /\ Len(conns) = 2
  /\ conns[1].send = "closed"
  /\ sv_pc = "serve"
  /\ sv_conn = 2
  /\ sv_exc = ""

\* The client sends bytes on its connection.
ClientSends ==
  /\ cl_conn # 0
  /\ cl_conn' = cl_conn
  /\ Len(conns'[cl_conn].c2s) > Len(conns[cl_conn].c2s)

\* The message in the bytes the client sends.
ClientRequest ==
  deserialise(Appended(conns[cl_conn].c2s, conns'[cl_conn].c2s), TOKEN, clock)

\* The dicts of an UPLOAD_REQUEST have, root by root, the paths that the
\* lists of a DIFF_RESPONSE name.
Grouped(uploaded, named) ==
  /\ IsSeq(uploaded) /\ IsSeq(named)
  /\ Len(uploaded.v) = Len(named.v)
  /\ \A i \in 1..Len(named.v) :
       DOMAIN uploaded.v[i].v = {named.v[i].v[j].v : j \in 1..Len(named.v[i].v)}

C16_Send ==
  ClientSends =>
    /\ conns[cl_conn].c2s = <<>>
    /\ ClientRequest.status = "ok"
    /\ ClientRequest.unused = <<>>
    /\ \/ /\ ClientRequest.message.type = DIFF_REQUEST
          /\ cl_pc = "diff_send"
          /\ cl_pc' = "diff_recv"
          /\ conns[cl_conn].s2c = <<>>
          /\ cl_buffer = <<>>
       \/ /\ ClientRequest.message.type = UPLOAD_REQUEST
          /\ cl_pc = "diff_recv"
          /\ cl_pc' = "upload_recv"
          /\ ClientReply.status = "ok"
          /\ ClientReply.message.type = DIFF_RESPONSE
          /\ ClientReply.unused = <<>>
          /\ Grouped(ClientRequest.message.body.v[K_uploaded_files],
                     ClientReply.message.body.v[K_diff])

\* The next cycle begins when the UPLOAD_RESPONSE has arrived, or on a new
\* connection.
C16_Cycle ==
  (cl_pc # "diff_send" /\ cl_pc' = "diff_send") =>
     \/ cl_pc = "connect" /\ cl_conn' # cl_conn
     \/ /\ cl_pc = "upload_recv"
        /\ cl_conn' = cl_conn
        /\ conns'[cl_conn].c2s = conns[cl_conn].c2s
        /\ ClientReply.status = "ok"
        /\ ClientReply.message.type = UPLOAD_RESPONSE

\* C16: on a connection the client sends a DIFF_REQUEST only when nothing
\* of an earlier request or response is left, an UPLOAD_REQUEST only when
\* the DIFF_RESPONSE of the cycle has arrived, with exactly the paths that
\* response names root by root, and the next DIFF_REQUEST only when the
\* UPLOAD_RESPONSE has arrived; a request is sent only when the server has
\* taken the one before.
C16_CycleOrder == [][C16_Send /\ C16_Cycle]_vars

\* In a cycle in which the DIFF_RESPONSE names one of the two files, the
\* UPLOAD_REQUEST is in flight.
C16_Witness ==
  /\ cl_pc = "upload_recv"
  /\ conns[cl_conn].c2s # <<>>
  /\ DOMAIN cl_sent = {Path_a}
  /\ DOMAIN cl_dir = Paths

(***************************************************************************)
(* DirMonitor over several roots, step by step: the thread that crawls,    *)
(* the main thread that reads self.files, and the files under the roots.   *)
(* Lists and dicts are objects of a heap, named by their place in it, so   *)
(* that two names of one object see each other's changes.                  *)
(***************************************************************************)
NRoots == 2

MaxPass == 3

\* An object: the list files of a pass (items names its dicts) or the dict
\* data of one crawl_and_hash (val), with the pass that made it and
\* whether the code that fills it has finished.
Obj(items, val, pass, whole) ==
  [items |-> items, val |-> val, pass |-> pass, whole |-> whole]

NoJob == [files |-> 0, i |-> 0, previous |-> 0, data |-> 0, all_files |-> <<>>]

\* What a reader finds behind a name of a list.
Deep(heap, id) == [i \in 1..Len(heap[id].items) |-> heap[heap[id].items[i]].val]

\* After DirMonitor.__init__, which ends with a first _crawl_all: files is
\* object 1, the dict of root i is object i + 1.
InitMonitor ==
  /\ mn_dirs \in [1..NRoots -> {NoFiles, Path_a :> File(1, Content_hi)}]
  /\ mn_heap = <<Obj([i \in 1..NRoots |-> i + 1], PyNone, 1, TRUE)>>
                 \o [i \in 1..NRoots |->
                      Obj(<<>>, crawl_and_hash(mn_dirs[i], PyList(<<>>)).data, 1, TRUE)]
  /\ mn_files = 1
  /\ mn_pc = "sleep"
  /\ mn_job = NoJob
  /\ rd_ref = 0
  /\ rd_seen = <<>>
  /\ SerdeRest /\ DiffRest /\ CrawlRest /\ SysRest /\ ChanRest /\ RecvRest

\* _crawl_all: files = []
MonBegin ==
  /\ mn_pc = "sleep"
  /\ mn_heap[mn_files].pass < MaxPass
  /\ mn_heap' = Append(mn_heap, Obj(<<>>, PyNone, mn_heap[mn_files].pass + 1, FALSE))
  /\ mn_job' = [NoJob EXCEPT !.files = Len(mn_heap) + 1, !.i = 1]
  /\ mn_pc' = "root"
  /\ UNCHANGED <<mn_dirs, mn_files, rd_ref, rd_seen>>
  /\ UNCHANGED <<sd_vars, df_vars, cr_vars, sy_vars, ch_vars, rx_vars>>

\* previous = self.files[i]; crawl_and_hash: all_files = self.crawl();
\* data = {}
MonRoot ==
  /\ mn_pc = "root"
  /\ mn_heap' = Append(mn_heap, Obj(<<>>, EmptyDict, mn_heap[mn_job.files].pass, FALSE))
  /\ mn_job' = [mn_job EXCEPT !.previous = mn_heap[mn_files].items[mn_job.i],
                              !.data = Len(mn_heap) + 1,
                              !.all_files = KeyOrder(crawl(mn_dirs[mn_job.i]))]
  /\ mn_pc' = "file"
  /\ UNCHANGED <<mn_dirs, mn_files, rd_ref, rd_seen>>
  /\ UNCHANGED <<sd_vars, df_vars, cr_vars, sy_vars, ch_vars, rx_vars>>

\* One pass of the loop of crawl_and_hash: data[rel_path] = ...; getmtime
\* raises OSError when the file has gone since crawl(), which ends the
\* thread.
MonFile ==
  /\ mn_pc = "file"
  /\ mn_job.all_files # <<>>
  /\ IF Head(mn_job.all_files) \notin DOMAIN mn_dirs[mn_job.i]
     THEN /\ mn_pc' = "dead"
          /\ UNCHANGED <<mn_heap, mn_job>>
     ELSE /\ mn_heap' = [mn_heap EXCEPT ![mn_job.data].val =
                           PyDict((Head(mn_job.all_files) :>
                                     Hashed(mn_dirs[mn_job.i], mn_heap[mn_job.previous].val,
                                            Head(mn_job.all_files))) @@ @.v)]
          /\ mn_job' = [mn_job EXCEPT !.all_files = Tail(@)]
          /\ mn_pc' = "file"
  /\ UNCHANGED <<mn_dirs, mn_files, rd_ref, rd_seen>>
  /\ UNCHANGED <<sd_vars, df_vars, cr_vars, sy_vars, ch_vars, rx_vars>>

\* A faulty variant of MonAppend: the dict is also put into the list that
\* self.files names.
MonAppendInPlace ==
  /\ mn_pc = "file"
  /\ mn_job.all_files = <<>>
  /\ mn_heap' = [mn_heap EXCEPT ![mn_job.data].whole = TRUE,
                                ![mn_job.files].items = Append(@, mn_job.data),
                                ![mn_files].items[mn_job.i] = mn_job.data]
  /\ mn_job' = [mn_job EXCEPT !.i = @ + 1]
  /\ mn_pc' = IF mn_job.i = NRoots THEN "publish" ELSE "root"
  /\ UNCHANGED <<mn_dirs, mn_files, rd_ref, rd_seen>>
  /\ UNCHANGED <<sd_vars, df_vars, cr_vars, sy_vars, ch_vars, rx_vars>>

\* crawl_and_hash returns data; files.append(data)
MonAppend ==
  /\ mn_pc = "file"
  /\ mn_job.all_files = <<>>
  /\ mn_heap' = [mn_heap EXCEPT ![mn_job.data].whole = TRUE,
                                ![mn_job.files].items = Append(@, mn_job.data)]
  /\ mn_job' = [mn_job EXCEPT !.i = @ + 1]
  /\ mn_pc' = IF mn_job.i = NRoots THEN "publish" ELSE "root"
  /\ UNCHANGED <<mn_dirs, mn_files, rd_ref, rd_seen>>
  /\ UNCHANGED <<sd_vars, df_vars, cr_vars, sy_vars, ch_vars, rx_vars>>

\* self.files = files; then time.sleep(5.0) in _thread_main
MonPublish ==
  /\ mn_pc = "publish"
  /\ mn_files' = mn_job.files
  /\ mn_heap' = [mn_heap EXCEPT ![mn_job.files].whole = TRUE]
  /\ mn_job' = NoJob
  /\ mn_pc' = "sleep"
  /\ UNCHANGED <<mn_dirs, rd_ref, rd_seen>>
  /\ UNCHANGED <<sd_vars, df_vars, cr_vars, sy_vars, ch_vars, rx_vars>>

\* The main thread evaluates self._monitor.files (for body['files'] of a
\* DIFF_REQUEST, or as the second argument of StateDiffer.diff) and works
\* on the list it got; rd_seen is what the list held at that moment.
RdRead ==
  /\ rd_ref # mn_files
  /\ rd_ref' = mn_files
  /\ rd_seen' = Deep(mn_heap, mn_files)
  /\ UNCHANGED <<mn_dirs, mn_heap, mn_files, mn_pc, mn_job>>
  /\ UNCHANGED <<sd_vars, df_vars, cr_vars, sy_vars, ch_vars, rx_vars>>

\* The paths that come to exist under root i: two under the last root, one
\* under the others.
RootPaths(i) == IF i = NRoots THEN Paths ELSE {Path_a}

\* A file under a root is created, or rewritten with the other content
\* later than it was written.
MonWrite ==
  /\ \E i \in 1..NRoots : \E path \in RootPaths(i) :
       IF path \in DOMAIN mn_dirs[i]
       THEN /\ mn_dirs[i][path].mtime < MaxTime
            /\ mn_dirs' = [mn_dirs EXCEPT ![i][path] =
                             File(@.mtime + 1, CHOOSE c \in Contents : c # @.content)]
       ELSE mn_dirs' = [mn_dirs EXCEPT ![i] = (path :> File(1, Content_hi)) @@ @]
  /\ UNCHANGED <<mn_heap, mn_files, mn_pc, mn_job, rd_ref, rd_seen>>
  /\ UNCHANGED <<sd_vars, df_vars, cr_vars, sy_vars, ch_vars, rx_vars>>

MonRemove ==
  /\ \E i \in 1..NRoots : \E path \in DOMAIN mn_dirs[i] :
       mn_dirs' = [mn_dirs EXCEPT ![i] = [q \in DOMAIN @ \ {path} |-> @[q]]]
  /\ UNCHANGED <<mn_heap, mn_files, mn_pc, mn_job, rd_ref, rd_seen>>
  /\ UNCHANGED <<sd_vars, df_vars, cr_vars, sy_vars, ch_vars, rx_vars>>

NextMonitor ==
  \/ MonBegin \/ MonRoot \/ MonFile \/ MonAppend \/ MonPublish
  \/ RdRead \/ MonWrite \/ MonRemove

SpecMonitor == InitMonitor /\ [][NextMonitor]_vars

\* C17: the list a reader got from self.files holds one dict per root, each
\* one finished and all of them made by the pass that made the list, and it
\* holds what it held when the reader got it.
C17_AtomicSnapshot ==
  rd_ref # 0 =>
    /\ Len(mn_heap[rd_ref].items) = NRoots
    /\ mn_heap[rd_ref].whole
    /\ \A i \in 1..NRoots :
         /\ mn_heap[mn_heap[rd_ref].items[i]].whole
         /\ mn_heap[mn_heap[rd_ref].items[i]].pass = mn_heap[rd_ref].pass
    /\ Deep(mn_heap, rd_ref) = rd_seen

\* The reader holds the list of the first pass while the thread, in its
\* third pass, has a dict half filled and a list with the dict of one root.
C17_Witness ==
  /\ rd_ref = 1
  /\ mn_pc = "file"
  /\ mn_heap[mn_job.files].pass = 3
  /\ mn_job.i = 2
  /\ mn_job.all_files # <<>>
  /\ mn_heap[mn_job.data].val # EmptyDict
  /\ mn_files # rd_ref
  /\ Deep(mn_heap, mn_files) # rd_seen

(***************************************************************************)
(* The server and a peer that knows the token and sends UPLOAD_REQUESTs of *)
(* its own making.  The server's monitor plays no part in an upload and is *)
(* left out.                                                               *)
(***************************************************************************)
\* self._dirs[0]: the server's root, as an absolute path ("/r").
ServerRoot == <<47, 114>>

\* "/x" and "../x"
Path_abs == <<47, 120>>

Path_up == <<46, 46, 47, 120>>

UploadPaths == {Path_a, Path_bc, Path_abs, Path_up}

\* uploaded_files of the peer: one dict of at most two paths.
UploadBodies ==
  {PyList(<<PyDict(d)>>) :
     d \in UNION {[K -> {PyStr(b64encode(c)) : c \in Contents}] :
                    K \in {S \in SUBSET UploadPaths : Cardinality(S) <= 2}}}

\* os.path.join(root, rel_path)
join(root, rel_path) ==
  IF isabs(rel_path) THEN rel_path ELSE root \o <<47>> \o rel_path

\* The components of a path, "/" being the separator.
RECURSIVE Parts(_, _, _)
Parts(path, i, part) ==
  IF i > Len(path) THEN <<part>>
  ELSE IF path[i] = 47 THEN <<part>> \o Parts(path, i + 1, <<>>)
  ELSE Parts(path, i + 1, Append(part, path[i]))

\* The directories and the file an absolute path leads through: "" and "."
\* stay, ".." goes up (not above "/").
RECURSIVE Resolve(_, _, _)
Resolve(parts, i, stack) ==
  IF i > Len(parts) THEN stack
  ELSE IF parts[i] = <<>> \/ parts[i] = <<46>> THEN Resolve(parts, i + 1, stack)
  ELSE IF parts[i] = <<46, 46>>
       THEN Resolve(parts, i + 1, IF stack = <<>> THEN stack ELSE SubSeq(stack, 1, Len(stack) - 1))
  ELSE Resolve(parts, i + 1, Append(stack, parts[i]))

\* The file open(path, 'wb') creates.
Target(path) == Resolve(Parts(path, 1, <<>>), 1, <<>>)

\* The file lies under the directory root.
Inside(root, path) ==
  /\ Len(Target(path)) > Len(Target(root))
  /\ SubSeq(Target(path), 1, Len(Target(root))) = Target(root)

\* The server has started on an empty root in which one of the files cannot
\* be opened for writing, or none; there is no client.
InitUploads ==
  /\ clock = 1
  /\ conns = <<>>
  /\ cl_dir = NoFiles
  /\ cl_files = PyNone
  /\ cl_pc = "rest"
  /\ cl_conn = 0
  /\ cl_buffer = <<>>
  /\ cl_sent = NoFiles
  /\ cl_cycle = "none"
  /\ sv_dir = NoFiles
  /\ sv_files = _crawl_all(sv_dir, NoSnapshot)
  /\ sv_pc = "accept"
  /\ sv_conn = 0
  /\ sv_buffer = <<>>
  /\ sv_blocked \in {{}, {Path_a}, {Path_bc}}
  /\ sv_exc = ""
  /\ pr_pc = "idle"
  /\ pr_conn = 0
  /\ SerdeRest /\ DiffRest /\ CrawlRest /\ MonRest /\ ChanRest /\ RecvRest

ProbeSendUpload ==
  /\ pr_pc = "idle"
  /\ sv_pc # "stopped"
  /\ Len(conns) < MaxConns
  /\ \E files \in UploadBodies :
       conns' = Append(conns,
                  [NewConn EXCEPT !.c2s =
                     sendMessage(@, WithBody(Message(UPLOAD_REQUEST, clock),
                                             K_uploaded_files, files), TOKEN)])
  /\ pr_conn' = Len(conns) + 1
  /\ pr_pc' = "recv"
  /\ UNCHANGED <<clock, ClientVars, ServerVars, Rest>>

NextUploads ==
  \/ ProbeSendUpload \/ ProbeRecv \/ ProbeClose
  \/ ServerAccept \/ ServerRecv \/ ServerDisconnect

SpecUploads == InitUploads /\ [][NextUploads]_vars

\* recvMessage returns an UPLOAD_REQUEST with one dict of base64 strings.
UploadOf(r) ==
  /\ r.status = "ok"
  /\ r.message.type = UPLOAD_REQUEST
  /\ K_uploaded_files \in DOMAIN r.message.body.v
  /\ IsSeq(r.message.body.v[K_uploaded_files])
  /\ Len(r.message.body.v[K_uploaded_files].v) = 1
  /\ r.message.body.v[K_uploaded_files].v[1].t = "dict"

\* The (path, content) pairs of the request in the order write takes them.
Requested == Items(ServerRequest.message.body.v[K_uploaded_files].v[1])

\* The place in Requested of the first file that cannot be written.
FirstBlocked ==
  CHOOSE i \in 1..Len(Requested) :
    /\ Requested[i][1] \in sv_blocked
    /\ \A j \in 1..(i - 1) : Requested[j][1] \notin sv_blocked

\* The server takes an UPLOAD_REQUEST that names a file it cannot write.
UploadFails ==
  /\ ServerTakes
  /\ UploadOf(ServerRequest)
  /\ \E i \in 1..Len(Requested) : Requested[i][1] \in sv_blocked

\* After the step the file holds what the request carries for it.
WrittenNow(i) ==
  /\ Requested[i][1] \in DOMAIN sv_dir'
  /\ sv_dir'[Requested[i][1]].content = b64decode(Requested[i][2].v).val

\* The step leaves the file as it was.
Untouched(i) ==
  /\ Requested[i][1] \in DOMAIN sv_dir' <=> Requested[i][1] \in DOMAIN sv_dir
  /\ Requested[i][1] \in DOMAIN sv_dir => sv_dir'[Requested[i][1]] = sv_dir[Requested[i][1]]

C18_StepAll ==
  UploadFails =>
    \A i \in 1..Len(Requested) : Requested[i][1] \notin sv_blocked => WrittenNow(i)

\* C18 as stated: when one file of an UPLOAD_REQUEST cannot be written,
\* every other file of the request is still written.
C18_RestWritten == [][C18_StepAll]_vars

C18_Step ==
  UploadFails =>
    /\ \A i \in 1..Len(Requested) :
         IF i < FirstBlocked THEN WrittenNow(i) ELSE Untouched(i)
    /\ \A id \in DOMAIN conns : Len(conns'[id].s2c) <= Len(conns[id].s2c)
    /\ sv_exc' = "IOError"

\* C18, amended: when one file of an UPLOAD_REQUEST cannot be written, the
\* files before it in the order of the dict are written, that file and the
\* files after it are not, and no UPLOAD_RESPONSE is sent.
C18_BatchAborted == [][C18_Step]_vars

\* b/c could not be written: a, which came before it, is there, and the
\* exception has left run.
C18_Witness ==
  /\ sv_blocked = {Path_bc}
  /\ sv_exc = "IOError"
  /\ DOMAIN sv_dir = {Path_a}
  /\ sv_pc = "stopped"

\* A file the step creates or rewrites.
WrittenPaths == {path \in DOMAIN sv_dir' : path \notin DOMAIN sv_dir \/ sv_dir'[path] # sv_dir[path]}

C20_Step ==
  (ServerTakes /\ UploadOf(ServerRequest)) =>
    \A path \in WrittenPaths :
      ~isabs(path) /\ Inside(ServerRoot, join(ServerRoot, path))

\* C20 as stated: every file the server writes for an UPLOAD_REQUEST, of
\* whatever body, has a relative path and lies under the server's root.
C20_InsideRoot == [][C20_Step]_vars

(***************************************************************************)
(* Who closes a socket: LocalClient.run or RemoteServer.run with the       *)
(* StreamHandler of each connection, every way a connection ends, and the  *)
(* close() calls each socket gets, through the StreamHandler (channel) and *)
(* through LocalClient._socket (owner).                                    *)
(***************************************************************************)
MaxSockets == 3

MaxExits == 2

\* A new socket; wrapped says that a StreamHandler was made for it.
NewSocket == [channel |-> 0, owner |-> 0, wrapped |-> FALSE]

\* self._socket.close(), through `who`
close(sockets, id, who) == [sockets EXCEPT ![id][who] = @ + 1]

\* A faulty variant of __exit__: the socket is closed and kept.
__exit__keeping(h) ==
  IF h.socket # 0
  THEN [socket |-> h.socket, sockets |-> close(h.sockets, h.socket, "channel")]
  ELSE h

\* StreamHandler.__exit__: if self._socket: self._socket.close();
\* self._socket = None
__exit__(h) ==
  IF h.socket # 0
  THEN [socket |-> 0, sockets |-> close(h.sockets, h.socket, "channel")]
  ELSE h

\* LocalClient._disconnect: if self._socket: self._socket.close();
\* self._socket = None
_disconnect(h) ==
  IF h.socket # 0
  THEN [socket |-> 0, sockets |-> close(h.sockets, h.socket, "owner")]
  ELSE h

\* The way the with block of a connection is left: recv raised
\* socket.timeout, a socket.error (the peer closed, or the transport
\* failed), or another exception went through.
ExitPaths == {"timeout", "error", "other"}

InitClose ==
  /\ ch_role \in {"client", "server"}
  /\ ch_pc = IF ch_role = "client" THEN "connect" ELSE "accept"
  /\ ch_sockets = <<>>
  /\ ch_path = ""
  /\ st_socket = 0
  /\ st_exits = 0
  /\ lc_socket = 0
  /\ SerdeRest /\ DiffRest /\ CrawlRest /\ SysRest /\ MonRest /\ RecvRest

Others == <<sd_vars, df_vars, cr_vars, sy_vars, mn_vars, rx_vars>>

\* LocalClient._connect: a new socket; connect succeeds, or raises
\* socket.timeout or socket.error.
LcConnect ==
  /\ ch_pc = "connect"
  /\ Len(ch_sockets) < MaxSockets
  /\ ch_sockets' = Append(ch_sockets, NewSocket)
  /\ lc_socket' = Len(ch_sockets) + 1
  /\ \E ok \in BOOLEAN :
       /\ ch_pc' = IF ok THEN "process" ELSE "finally"
       /\ ch_path' = IF ok THEN "" ELSE "error"
  /\ UNCHANGED <<ch_role, st_socket, st_exits, Others>>

\* _process_messages: with StreamHandler(self._args.token, self._socket)
LcProcess ==
  /\ ch_pc = "process"
  /\ st_socket' = lc_socket
  /\ st_exits' = 0
  /\ ch_sockets' = [ch_sockets EXCEPT ![lc_socket].wrapped = TRUE]
  /\ ch_pc' = "messages"
  /\ UNCHANGED <<ch_role, ch_path, lc_socket, Others>>

\* RemoteServer.run: connection, address = self._socket.accept();
\* with StreamHandler(self._args.token, connection)
SvAccept ==
  /\ ch_pc = "accept"
  /\ Len(ch_sockets) < MaxSockets
  /\ ch_sockets' = Append(ch_sockets, [NewSocket EXCEPT !.wrapped = TRUE])
  /\ st_socket' = Len(ch_sockets) + 1
  /\ st_exits' = 0
  /\ ch_path' = ""
  /\ ch_pc' = "messages"
  /\ UNCHANGED <<ch_role, lc_socket, Others>>

\* The loop of messages ends: the server breaks out of it on socket.timeout
\* and socket.error; every other exception, and every exception on the
\* client, leaves the with block as it is.
Raise ==
  /\ ch_pc = "messages"
  /\ \E path \in ExitPaths : ch_path' = path
  /\ ch_pc' = "exit"
  /\ UNCHANGED <<ch_role, ch_sockets, st_socket, st_exits, lc_socket, Others>>

\* The with block calls __exit__ of the StreamHandler.
StExit ==
  /\ ch_pc = "exit"
  /\ st_socket' = __exit__([socket |-> st_socket, sockets |-> ch_sockets]).socket
  /\ ch_sockets' = __exit__([socket |-> st_socket, sockets |-> ch_sockets]).sockets
  /\ st_exits' = 1
  /\ ch_pc' = IF ch_role = "client" THEN "finally"
              ELSE IF ch_path = "other" THEN "stopped" ELSE "accept"
  /\ UNCHANGED <<ch_role, ch_path, lc_socket, Others>>

\* __exit__ is called again on a StreamHandler that has been left.
StExitAgain ==
  /\ st_exits \in 1..(MaxExits - 1)
  /\ st_socket' = __exit__([socket |-> st_socket, sockets |-> ch_sockets]).socket
  /\ ch_sockets' = __exit__([socket |-> st_socket, sockets |-> ch_sockets]).sockets
  /\ st_exits' = st_exits + 1
  /\ UNCHANGED <<ch_role, ch_pc, ch_path, lc_socket, Others>>

\* LocalClient.run: finally: self._disconnect(); then time.sleep(1.0) and
\* the next connection, or the exception goes on.
LcDisconnect ==
  /\ ch_pc = "finally"
  /\ lc_socket' = _disconnect([socket |-> lc_socket, sockets |-> ch_sockets]).socket
  /\ ch_sockets' = _disconnect([socket |-> lc_socket, sockets |-> ch_sockets]).sockets
  /\ ch_pc' = IF ch_path = "other" THEN "leave" ELSE "connect"
  /\ UNCHANGED <<ch_role, ch_path, st_socket, st_exits, Others>>

\* LocalClient.__exit__: self._disconnect()
LcLeave ==
  /\ ch_pc = "leave"
  /\ lc_socket' = _disconnect([socket |-> lc_socket, sockets |-> ch_sockets]).socket
  /\ ch_sockets' = _disconnect([socket |-> lc_socket, sockets |-> ch_sockets]).sockets
  /\ ch_pc' = "stopped"
  /\ UNCHANGED <<ch_role, ch_path, st_socket, st_exits, Others>>

NextClose ==
  \/ LcConnect \/ LcProcess \/ LcDisconnect \/ LcLeave
  \/ SvAccept \/ Raise \/ StExit \/ StExitAgain

SpecClose == InitClose /\ [][NextClose]_vars

\* The connection of socket id is over.
Over(id) == id < Len(ch_sockets) \/ ch_pc \in {"connect", "accept", "leave", "stopped"}

ClientRemove ==
  /\ \E path \in DOMAIN cl_dir :
       cl_dir' = [q \in DOMAIN cl_dir \ {path} |-> cl_dir[q]]
  /\ cl_cycle' = "none"
  /\ UNCHANGED <<clock, conns, cl_files, cl_pc, cl_conn, cl_buffer, cl_sent,
                 ServerVars, ProbeVars, Rest>>

NextRemoval == NextPeers \/ ClientRemove

SpecRemoval == Init /\ [][NextRemoval]_vars

\* The client's recvMessage returns a DIFF_RESPONSE that names, for the one
\* root, paths of which one is not on the client's disk.
NamesMissing ==
  /\ cl_pc = "diff_recv"
  /\ conns[cl_conn].s2c # <<>>
  /\ ClientReply.status = "ok"
  /\ ClientReply.message.type = DIFF_RESPONSE
  /\ K_diff \in DOMAIN ClientReply.message.body.v
  /\ IsSeq(ClientReply.message.body.v[K_diff])
  /\ Len(ClientReply.message.body.v[K_diff].v) = 1
  /\ IsSeq(ClientReply.message.body.v[K_diff].v[1])
  /\ \A path \in Named(ClientReply.message.body.v[K_diff]) : ~isabs(path)
  /\ \E path \in Named(ClientReply.message.body.v[K_diff]) : path \notin DOMAIN cl_dir

\* C22: when the client takes a DIFF_RESPONSE that names a path which is no
\* longer on its disk, the client does not stop: it is in its cycle or on
\* its way to the next connection.
C22_Step == (NamesMissing /\ cl_pc' # cl_pc) => cl_pc' # "stopped"

C22_KeepsRunning == [][C22_Step]_vars

(***************************************************************************)
(* One StreamHandler receiving the frames a peer sends one after the       *)
(* other on a connection with a receive timeout.                           *)
(***************************************************************************)
\* The number of frames the peer sends.
MaxFrames == 2

\* The messages the peer sends.
StreamMessages == {Message(PING_REQUEST, 0), Message(PING_RESPONSE, 1)}

InitStream ==
  /\ rx_sent = <<>>
  /\ rx_wire = <<>>
  /\ rx_buffer = <<>>
  /\ rx_pc = "rest"
  /\ rx_got = <<>>
  /\ SerdeRest /\ DiffRest /\ CrawlRest /\ SysRest /\ MonRest /\ ChanRest

\* StreamHandler.sendMessage(message) by the peer: sendall puts the whole
\* frame behind the bytes in flight.
RxSend ==
  /\ Len(rx_sent) < MaxFrames
  /\ rx_pc # "closed"
  /\ \E m \in StreamMessages :
       /\ rx_sent' = Append(rx_sent, m)
       /\ rx_wire' = sendMessage(rx_wire, m, TOKEN)
  /\ UNCHANGED <<rx_buffer, rx_pc, rx_got>>
  /\ UNCHANGED <<sd_vars, df_vars, cr_vars, sy_vars, mn_vars, ch_vars>>

\* The owner of the handler calls recvMessage: the loop is entered.
RxCall ==
  /\ rx_pc = "rest"
  /\ rx_pc' = "recv"
  /\ UNCHANGED <<rx_sent, rx_wire, rx_buffer, rx_got>>
  /\ UNCHANGED <<sd_vars, df_vars, cr_vars, sy_vars, mn_vars, ch_vars>>

\* One pass of the loop of recvMessage: recv returns the first k bytes in
\* flight, they are appended to the buffer and the buffer is deserialised.
\* A message ends the call, None goes round the loop, an exception ends the
\* use of the handler.
RxRecv ==
  /\ rx_pc = "recv"
  /\ \E k \in RecvSizes(rx_wire) :
       LET r == recvMessage(rx_buffer, SubSeq(rx_wire, 1, k), TOKEN, MaxTime + 1)
       IN /\ rx_buffer' = r.buffer
          /\ rx_wire' = SubSeq(rx_wire, k + 1, Len(rx_wire))
          /\ rx_got' = IF r.result.status = "ok" THEN Append(rx_got, r.result.message)
                       ELSE rx_got
          /\ rx_pc' = IF r.result.status = "ok" THEN "rest"
                      ELSE IF r.result.status = "none" THEN "recv" ELSE "closed"
  /\ UNCHANGED rx_sent
  /\ UNCHANGED <<sd_vars, df_vars, cr_vars, sy_vars, mn_vars, ch_vars>>

\* recv finds no byte in flight for SOCKET_TIMEOUT_SECS and raises
\* socket.timeout: the owner leaves the with block of the handler, and the
\* handler with its buffer is not used again.
RxTimeout ==
  /\ rx_pc = "recv"
  /\ rx_wire = <<>>
  /\ rx_pc' = "closed"
  /\ UNCHANGED <<rx_sent, rx_wire, rx_buffer, rx_got>>
  /\ UNCHANGED <<sd_vars, df_vars, cr_vars, sy_vars, mn_vars, ch_vars>>

NextStream == RxSend \/ RxCall \/ RxRecv \/ RxTimeout

SpecStream == InitStream /\ [][NextStream]_vars

\* The message a call of recvMessage returns for the frame of m.
Carried(m) == deserialise(serialise(m, TOKEN), TOKEN, MaxTime + 1).message

\* A complete frame is in the buffer of the handler.
FrameBuffered == deserialise(rx_buffer, TOKEN, MaxTime + 1).status = "ok"

\* C21: the messages recvMessage has returned are the first of the frames
\* the peer has sent, in the order sent and each once, and when the handler
\* is left because the peer was silent no complete frame it had received
\* stays undelivered in its buffer.
C21_EveryFrameDelivered ==
  /\ Len(rx_got) <= Len(rx_sent)
  /\ \A i \in 1..Len(rx_got) : rx_got[i] = Carried(rx_sent[i])
  /\ rx_pc = "closed" => ~FrameBuffered

(***************************************************************************)
(* The client and the server on one connection that stays, with the        *)
(* scheduling the two processes have: every thread that can take a step    *)
(* eventually takes it.  The user rewrites files of the client within the  *)
(* tick of the clock that their modification time already shows.           *)
(* A run in which the clock has reached MaxTime and the server is asked to *)
(* replace a file written at MaxTime stops there and is not a fair run.    *)
(***************************************************************************)
\* Both processes have started on files written within the current tick;
\* every file can be written on the server.
InitSync ==
  /\ clock = 1
  /\ conns = <<>>
  /\ cl_dir = Path_a :> File(clock, Content_hi) @@ Path_bc :> File(clock, Content_ho)
  /\ cl_files = _crawl_all(cl_dir, NoSnapshot)
  /\ cl_pc = "connect"
  /\ cl_conn = 0
  /\ cl_buffer = <<>>
  /\ cl_sent = NoFiles
  /\ cl_cycle = "none"
  /\ sv_dir = NoFiles
  /\ sv_files = _crawl_all(sv_dir, NoSnapshot)
  /\ sv_pc = "accept"
  /\ sv_conn = 0
  /\ sv_buffer = <<>>
  /\ sv_blocked = {}
  /\ sv_exc = ""
  /\ pr_pc = "idle"
  /\ pr_conn = 0
  /\ SerdeRest /\ DiffRest /\ CrawlRest /\ MonRest /\ ChanRest /\ RecvRest

\* A file is rewritten with another content while the clock that stamps
\* the files has not moved since it was last written.
ClientRewrite ==
  /\ \E path \in DOMAIN cl_dir, content \in Contents :
       /\ cl_dir[path].mtime = clock
       /\ content # cl_dir[path].content
       /\ cl_dir' = [cl_dir EXCEPT ![path] = File(clock, content)]
  /\ cl_cycle' = "none"
  /\ UNCHANGED <<clock, conns, cl_files, cl_pc, cl_conn, cl_buffer, cl_sent,
                 ServerVars, ProbeVars, Rest>>

\* Time passes.
Tick ==
  /\ clock < MaxTime
  /\ clock' = clock + 1
  /\ UNCHANGED <<conns, ClientVars, ServerVars, ProbeVars, Rest>>

\* The client sleeps three seconds between two cycles, so a file that an
\* UPLOAD_REQUEST replaces on the server was written at an earlier time.
ServerRecvLater ==
  /\ ServerRecv
  /\ \A path \in DOMAIN sv_dir :
       sv_dir'[path] # sv_dir[path] => sv_dir[path].mtime < clock

NextSync ==
  \/ Tick \/ ClientRewrite \/ ClientCrawl \/ ServerCrawl
  \/ ClientConnect \/ ClientSendDiff \/ ClientRecvDiff \/ ClientRecvUpload
  \/ ServerAccept \/ ServerRecvLater

\* When each of the four steps that send or receive a message can be
\* taken.  Taking the step ends the condition, so weak fairness of the step
\* is that the condition does not hold for ever.
SendDiffDue == cl_pc = "diff_send"

RecvDiffDue == cl_pc = "diff_recv" /\ conns[cl_conn].s2c # <<>>

RecvUploadDue == cl_pc = "upload_recv" /\ conns[cl_conn].s2c # <<>>

ServerRecvDue == sv_pc = "serve" /\ conns[sv_conn].c2s # <<>>

\* The monitor threads, the client's loop and the server's loop each go on
\* when they can (weak fairness of each of their steps); the user's writes
\* may or may not happen.
FairSync ==
  /\ WF_vars(Tick) /\ WF_vars(ClientCrawl) /\ WF_vars(ServerCrawl)
  /\ WF_vars(ClientConnect) /\ WF_vars(ServerAccept)
  /\ []<>~SendDiffDue /\ []<>~RecvDiffDue /\ []<>~RecvUploadDue /\ []<>~ServerRecvDue

SpecSync == InitSync /\ [][NextSync]_vars /\ FairSync

\* Every file of the client is on the server with the same content, and the
\* diff of the two snapshots is empty.
Consistent ==
  /\ \A path \in DOMAIN cl_dir :
       path \in DOMAIN sv_dir /\ sv_dir[path].content = cl_dir[path].content
  /\ diff(AsJson(cl_files), sv_files).exc = ""
  /\ Named(diff(AsJson(cl_files), sv_files).results) = {}

=============================================================================
